---------------------------- MODULE Spec2Model ----------------------------
(***************************************************************************)
(* Verification model of parts of the Ames Stereo Pipeline:                *)
(*   - asp/Camera/JitterSolveCostFuns.cc : sample windows and reprojection *)
(*     cost functions of the jitter solver;                                *)
(*   - asp/Camera/RigSet.cc              : the rig configuration reader;   *)
(*   - asp/Camera/BundleAdjustCamera2.cc : the intrinsics-to-float parser. *)
(*                                                                         *)
(* Times are integers (ticks); a division of two doubles followed by       *)
(* static_cast<int> is the integer quotient rounded toward zero.           *)
(***************************************************************************)
EXTENDS Integers, Sequences, FiniteSets, TLC

VARIABLES
  \* ---- calcIndexBounds (JitterSolveCostFuns.cc) ----
  time1, time2, t0, dt, numVals,  \* the inputs
  begIndex, endIndex,             \* the outputs (references)
  idxPc,                          \* "start" | "returned" | "thrown"
  \* ---- the linescan camera (UsgsAstroLsSensorModel) ----
  m_quaternions, m_positions,     \* sample index -> sample value
  m_t0Quat, m_dtQuat,             \* origin and spacing of the quaternions
  m_t0Ephem, m_dtEphem,           \* origin and spacing of the positions
  \* ---- addLsReprojectionErr and the residual block it adds ----
  lsTime1, lsTime2,               \* getImageTime of observation -/+ line_extra
  tri_point, m_weight,            \* the 3-D point and the weight
  begQuatIndex, endQuatIndex,     \* the quaternion window [beg, end)
  begPosIndex, endPosIndex,       \* the position window [beg, end)
  lineTime,                       \* time of the line the point projects to
  lsResiduals,                    \* residuals of the latest evaluation
  lsPc,                           \* "start" | "added" | "thrown" | "evaluated"
  \* ---- concurrent evaluations of the reprojection cost functions ----
  m_frame_params,                 \* the frame camera: 0 -> position, 1 -> quaternion
  evFun,                          \* thread -> the cost function object it evaluates
  evParameters,                   \* thread -> the parameter blocks passed to it
  evCam,                          \* thread -> the local copies made by operator()
  evResiduals,                    \* thread -> the residuals array of the call
  evPc,                           \* thread -> position in operator()
  \* ---- readRigConfig (RigSet.cc) ----
  have_rig_transforms,            \* the argument of readRigConfig
  f_line,                         \* the last line getline took from the file
  f_rewound,                      \* seekg put the position back before f_line
  R,                              \* the RigSet being filled
  distortion,                     \* number of distortion coefficients read
  rigPc,                          \* the next key to read | "returned" | "fatal" | "crashed"
  \* ---- load_intrinsics_options (BundleAdjustCamera2.cc) ----
  solve_intrinsics,               \* arguments of load_intrinsics_options
  shared_is_specified,
  intrinsics_to_float_str,
  intrinsics_to_share_str,
  intrinsics_options,             \* the caller's asp::IntrinsicOptions
  intrPc,                         \* "start" | "returned" | "thrown"
  \* ---- init_pinhole_model_with_multi_gcp (BundleAdjustCamera.cc) ----
  cnet,                           \* the control network: a sequence of points
  camera_models,                  \* the number of cameras
  ipt,                            \* the loop index over the network (0-based)
  num_good_gcp,                   \* the counted number of valid GCPs
  index,                          \* the next column of points_in / points_out
  points_in,                      \* the columns written: <<column, point>>
  gcpPc,                          \* "count" | "fill" | "solved" | "thrown" | "crashed"
  \* ---- init_pinhole_model_with_camera_positions (BundleAdjustCamera.cc) ----
  image_files,                    \* the number of images (num_cameras)
  estimated_camera_gcc,           \* candidate positions, 0 = Vector3(0,0,0)
  pinhole_models,                 \* camera -> its position and pose
  world_points,                   \* the control network: type and position
  rigid_transform,                \* the solved (rotation, translation, scale)
  icam,                           \* cameras / points transformed so far
  posPc,                          \* "start" | "cameras" | "points" | "returned" | "thrown"
  \* ---- the parameter store and the pinhole / optical bar cameras (BundleAdjustCamera.cc) ----
  cam_ptrs,                       \* camera index -> the camera model
  param_storage,                  \* camera index -> its records in BAParamStorage
  out_cam,                        \* the camera returned by transformed...Camera
  storePc,                        \* the last operation and its camera index
  \* ---- init_cams, init_cams_csm (BundleAdjustCamera2.cc) ----
  init_path,                      \* "init_cams" | "init_cams_csm"
  input_prefix,                   \* "" or the prefix of earlier adjustments
  initial_transform_file,         \* "" or the file of the initial transform
  initial_scale,                  \* det(initial_transform)^(1/3) - 1, in units of 1e-7
  csm_camera_models,              \* opt.camera_models: what was applied to each
  csm_param_storage,              \* the camera records: what was applied to each
  csmPc,                          \* "start" | "prepared" | "transformed" | "returned" | "thrown"
  \* ---- StereoTXAndErrorView (stereo_tri.cc) ----
  m_disparity_maps,               \* one disparity map per right image
  m_transforms,                   \* the view's transforms (references to objects)
  m_is_map_projected,
  transform_objs,                 \* every transform object: its shift and its cache
  cache_writes,                   \* <<object, tile>> for every reverse_bbox call
  tilePc,                         \* per tile: "start" | "copied" | "loop" | "raster" | "done" | "thrown"
  transforms_copy,                \* per tile: the local of PreRasterHelper
  tileP,                          \* per tile: the loop index p of PreRasterHelper
  tileView,                       \* per tile: the view returned by prerasterize
  pixVec,                         \* per tile: the pixels handed to the stereo model
  viewResult,                     \* per tile: the 6-vector of operator()
  \* ---- stereo_triangulation: the universe radius (stereo_tri.cc) ----
  universe_center,                \* stereo_settings().universe_center
  session_name,                   \* opt_vec[0].session->name()
  camera_center_throws,           \* cameras[0]->camera_center(Vector2()) throws
  near_universe_radius,
  far_universe_radius,
  universe_radius_func,           \* the filter given to per_pixel_filter
  universe_warned,                \* the warning of the catch block was printed
  uniPc,                          \* "start" | "configured" | "cloud"
  \* ---- find_point_cloud_center (stereo_tri.cc) ----
  cloud_cols,                     \* point_cloud.cols()
  cloud_rows,                     \* point_cloud.rows()
  tile_size,                      \* <<width, height>> of a tile
  cloud_valid,                    \* valid points wanted in <<the central tile, any other tile>>
  trans_crop_win,                 \* stereo_settings().trans_crop_win
  ring_r,                         \* the loop indices r, x, y
  ring_x,
  ring_y,
  points,                         \* the accumulated points, as runs of equal points
  visited,                        \* the tiles triangulated, in order
  rand_value,                     \* what the three calls of rand() return
  cloud_center,                   \* the value returned
  centerPc,                       \* "loop" | "exhausted" | "returned"
  \* ---- weightedRollYawError::operator() (JitterSolveCostFuns.cc) ----
  m_initial_camera_constraint,    \* the alternative mode
  m_rollWeight,
  m_yawWeight,
  rollPitchYaw,                   \* what rollPitchYawFromRotationMatrix returns, in degrees
  ryResiduals,                    \* residuals[0], residuals[1]
  ryPc,                           \* "start" | "returned"
  \* ---- check_gcp_dists (BundleAdjustCamera.cc) ----
  dist_cnet,                      \* the control network given to check_gcp_dists
  dist_cnet0,                     \* the control network as it was at the call
  dist_ipt,                       \* loop index of the current loop
  gcp_count,
  ip_count,
  mean_gcp,                       \* one coordinate, in meters
  mean_ip,
  dist_warned,                    \* the warning was printed
  distPc,                         \* "count" | "mean" | "returned"
  \* ---- compute_matches_from_disp (stereo_tri.cc) ----
  disp_cols,                      \* disp.cols(), also the width of both images
  disp_rows,
  disp_pattern,                   \* which pixels of the disparity are masked
  disp_dx,                        \* the horizontal offset of a valid disparity
  match_trans,                    \* left_trans and right_trans
  max_num_matches,
  gen_triplets,
  binx,
  biny,
  col,
  row,
  left_ip,
  right_ip,
  left_done,                      \* std::map<double, double>
  right_done,
  matchPc                         \* "plain" | "left" | "right" | "written"

idxVars == <<time1, time2, t0, dt, numVals, begIndex, endIndex, idxPc>>
camVars == <<m_quaternions, m_positions, m_t0Quat, m_dtQuat, m_t0Ephem, m_dtEphem>>
lsVars  == <<lsTime1, lsTime2, tri_point, m_weight, begQuatIndex, endQuatIndex,
             begPosIndex, endPosIndex, lineTime, lsResiduals, lsPc>>

evVars  == <<m_frame_params, evFun, evParameters, evCam, evResiduals, evPc>>

rigVars == <<have_rig_transforms, f_line, f_rewound, R, distortion, rigPc>>

intrVars == <<solve_intrinsics, shared_is_specified, intrinsics_to_float_str,
              intrinsics_to_share_str, intrinsics_options, intrPc>>

gcpVars == <<cnet, camera_models, ipt, num_good_gcp, index, points_in, gcpPc>>

posVars == <<image_files, estimated_camera_gcc, pinhole_models, world_points, rigid_transform, icam, posPc>>

storeVars == <<cam_ptrs, param_storage, out_cam, storePc>>

csmInitVars == <<init_path, input_prefix, initial_transform_file, initial_scale, csm_camera_models, csm_param_storage, csmPc>>

viewVars == <<m_disparity_maps, m_transforms, m_is_map_projected, transform_objs, cache_writes, tilePc, transforms_copy, tileP, tileView, pixVec, viewResult>>

universeVars == <<universe_center, session_name, camera_center_throws, near_universe_radius, far_universe_radius, universe_radius_func, universe_warned, uniPc>>

centerVars == <<cloud_cols, cloud_rows, tile_size, cloud_valid, trans_crop_win, ring_r, ring_x, ring_y, points, visited, rand_value, cloud_center, centerPc>>

rollYawVars == <<m_initial_camera_constraint, m_rollWeight, m_yawWeight, rollPitchYaw, ryResiduals, ryPc>>

gcpDistsVars == <<dist_cnet, dist_cnet0, dist_ipt, gcp_count, ip_count, mean_gcp, mean_ip, dist_warned, distPc>>

matchesVars == <<disp_cols, disp_rows, disp_pattern, disp_dx, match_trans, max_num_matches, gen_triplets, binx, biny, col, row, left_ip, right_ip, left_done, right_done, matchPc>>

vars == <<idxVars, camVars, lsVars, evVars, rigVars, intrVars, gcpVars, posVars, storeVars, csmInitVars, viewVars, universeVars, centerVars, rollYawVars, gcpDistsVars, matchesVars>>

\* What the actions of one part of the model leave unchanged.
notIdx     == <<camVars, lsVars, evVars, rigVars, intrVars, gcpVars, posVars, storeVars, csmInitVars, viewVars, universeVars, centerVars, rollYawVars, gcpDistsVars, matchesVars>>
notLsBlock == <<idxVars, camVars, evVars, rigVars, intrVars, gcpVars, posVars, storeVars, csmInitVars, viewVars, universeVars, centerVars, rollYawVars, gcpDistsVars, matchesVars>>
notCam     == <<idxVars, lsVars, evVars, rigVars, intrVars, gcpVars, posVars, storeVars, csmInitVars, viewVars, universeVars, centerVars, rollYawVars, gcpDistsVars, matchesVars>>
notEv      == <<idxVars, camVars, lsVars, rigVars, intrVars, gcpVars, posVars, storeVars, csmInitVars, viewVars, universeVars, centerVars, rollYawVars, gcpDistsVars, matchesVars>>
notRig     == <<idxVars, camVars, lsVars, evVars, intrVars, gcpVars, posVars, storeVars, csmInitVars, viewVars, universeVars, centerVars, rollYawVars, gcpDistsVars, matchesVars>>
notIntr    == <<idxVars, camVars, lsVars, evVars, rigVars, gcpVars, posVars, storeVars, csmInitVars, viewVars, universeVars, centerVars, rollYawVars, gcpDistsVars, matchesVars>>
notGcp == <<idxVars, camVars, lsVars, evVars, rigVars, intrVars, posVars, storeVars, csmInitVars, viewVars, universeVars, centerVars, rollYawVars, gcpDistsVars, matchesVars>>
notPos == <<idxVars, camVars, lsVars, evVars, rigVars, intrVars, gcpVars, storeVars, csmInitVars, viewVars, universeVars, centerVars, rollYawVars, gcpDistsVars, matchesVars>>
notStore == <<idxVars, camVars, lsVars, evVars, rigVars, intrVars, gcpVars, posVars, csmInitVars, viewVars, universeVars, centerVars, rollYawVars, gcpDistsVars, matchesVars>>
notCsmInit == <<idxVars, camVars, lsVars, evVars, rigVars, intrVars, gcpVars, posVars, storeVars, viewVars, universeVars, centerVars, rollYawVars, gcpDistsVars, matchesVars>>
notView == <<idxVars, camVars, lsVars, evVars, rigVars, intrVars, gcpVars, posVars, storeVars, csmInitVars, universeVars, centerVars, rollYawVars, gcpDistsVars, matchesVars>>
notUniverse == <<idxVars, camVars, lsVars, evVars, rigVars, intrVars, gcpVars, posVars, storeVars, csmInitVars, viewVars, centerVars, rollYawVars, gcpDistsVars, matchesVars>>
notCenter == <<idxVars, camVars, lsVars, evVars, rigVars, intrVars, gcpVars, posVars, storeVars, csmInitVars, viewVars, universeVars, rollYawVars, gcpDistsVars, matchesVars>>
notRollYaw == <<idxVars, camVars, lsVars, evVars, rigVars, intrVars, gcpVars, posVars, storeVars, csmInitVars, viewVars, universeVars, centerVars, gcpDistsVars, matchesVars>>
notGcpDists == <<idxVars, camVars, lsVars, evVars, rigVars, intrVars, gcpVars, posVars, storeVars, csmInitVars, viewVars, universeVars, centerVars, rollYawVars, matchesVars>>
notMatches == <<idxVars, camVars, lsVars, evVars, rigVars, intrVars, gcpVars, posVars, storeVars, csmInitVars, viewVars, universeVars, centerVars, rollYawVars, gcpDistsVars>>

---------------------------------------------------------------------------
(* Bounds of the model *)
MaxTime    == 9   \* times time1, time2 range over -MaxTime..MaxTime
MaxT0      == 1   \* the sample origin t0 ranges over 0..MaxT0
MaxDt      == 2   \* the sample spacing dt ranges over 1..MaxDt
MaxNumVals == 7   \* the number of samples ranges over 0..MaxNumVals
NumQuat    == 6   \* quaternion samples of the linescan camera
NumPos     == 5   \* position samples of the linescan camera
MaxLsTime  == 5   \* image times of a block range over -MaxLsTime..MaxLsTime
MaxModified == 2  \* samples that differ from the loaded ones, per array
NumThreads == 2   \* solver threads evaluating cost functions concurrently
MaxWeight  == 2   \* observation weights range over 1..MaxWeight
MaxSensors == 2   \* sensors a rig file describes
MaxOptions == 3   \* options in an intrinsics-to-float string
MaxNumSensors == 2  \* intrinsics_options.num_sensors ranges up to MaxNumSensors
MaxIndex   == 2   \* sensor indices written in the strings range over 0..MaxIndex
MaxCnetPoints == 4  \* points of a control network
MaxCameras == 4   \* cameras and candidate camera positions
MaxLens    == 2   \* lens distortion parameters of a pinhole camera
MaxTransforms == 2  \* similarities applied to a camera
MaxCsmCameras == 2  \* CSM cameras initialized
MaxScale   == 20  \* largest |scale - 1| of an initial transform, in units of 1e-7
NumTiles   == 2   \* tiles rasterized concurrently
MaxDisparities == 2 \* disparity maps of a triangulation view
MaxRadius  == 2   \* largest universe radius
TileSize   == 12  \* width and height of a tile of the point cloud
MaxCols    == 37  \* widest point cloud
MaxRows    == 49  \* tallest point cloud
MaxRand    == 1   \* largest value of rand()
MaxAngle   == 180 \* largest angle of a decomposition, in degrees
MaxDistPoints == 3 \* points of the control network of check_gcp_dists
MaxDispCols == 4  \* widest disparity of compute_matches_from_disp
MaxDispRows == 4  \* tallest disparity of compute_matches_from_disp
MaxMatches == 3   \* largest max_num_matches

---------------------------------------------------------------------------
(* Helpers *)
Min(a, b) == IF a < b THEN a ELSE b
Max(a, b) == IF a > b THEN a ELSE b

---------------------------------------------------------------------------
(* calcIndexBounds *)

\* Order of Lagrange interpolation
numInterpSamples == 8

\* A variant of sampleIndex that rounds toward minus infinity.
sampleIndex_floor(time, origin, step) == (time - origin) \div step

\* static_cast<int>((time - t0) / dt): the quotient with its fractional part
\* discarded, that is, rounded toward zero.
sampleIndex(time, origin, step) ==
  IF time - origin >= 0 THEN (time - origin) \div step
                        ELSE -((origin - time) \div step)

\* begIndex as calcIndexBounds leaves it, clamp included.
calcBegIndex(ta, tb, origin, step, n) ==
  Max(0, Min(sampleIndex(ta, origin, step), sampleIndex(tb, origin, step))
           - numInterpSamples \div 2 + 1)

\* A variant of calcEndIndex without the "+ 1".
calcEndIndex_short(ta, tb, origin, step, n) ==
  Min(Max(sampleIndex(ta, origin, step), sampleIndex(tb, origin, step))
        + numInterpSamples \div 2, n)

\* endIndex (exclusive) as calcIndexBounds leaves it, clamp included.
calcEndIndex(ta, tb, origin, step, n) ==
  Min(Max(sampleIndex(ta, origin, step), sampleIndex(tb, origin, step))
        + numInterpSamples \div 2 + 1, n)

\* A variant of calcIndexBounds that never throws.
calcIndexBoundsThrows_never(ta, tb, origin, step, n) == FALSE

\* The book-keeping error: vw_throw(ArgumentErr) when begIndex >= endIndex.
calcIndexBoundsThrows(ta, tb, origin, step, n) ==
  calcBegIndex(ta, tb, origin, step, n) >= calcEndIndex(ta, tb, origin, step, n)

\* One call of calcIndexBounds on the inputs of the state. The outputs are
\* references: they are assigned before the error is thrown.
calcIndexBounds ==
  /\ idxPc = "start"
  /\ begIndex' = calcBegIndex(time1, time2, t0, dt, numVals)
  /\ endIndex' = calcEndIndex(time1, time2, t0, dt, numVals)
  /\ idxPc' = IF calcIndexBoundsThrows(time1, time2, t0, dt, numVals)
              THEN "thrown" ELSE "returned"
  /\ UNCHANGED <<time1, time2, t0, dt, numVals>>
  /\ UNCHANGED notIdx

IdxInit ==
  /\ time1 \in -MaxTime..MaxTime
  /\ time2 \in -MaxTime..MaxTime
  /\ t0 \in 0..MaxT0
  /\ dt \in 1..MaxDt
  /\ numVals \in 0..MaxNumVals
  /\ begIndex = -1
  /\ endIndex = -1
  /\ idxPc = "start"

IdxIdle ==
  /\ time1 = 0 /\ time2 = 0 /\ t0 = 0 /\ dt = 1 /\ numVals = 0
  /\ begIndex = -1 /\ endIndex = -1 /\ idxPc = "idle"

---------------------------------------------------------------------------
(* The linescan camera and the residual block of addLsReprojectionErr *)

RECURSIVE SumOver(_, _)
\* The sum of f[i] * (i + 1) over the indices i of the set S.
SumOver(S, f) ==
  IF S = {} THEN 0
  ELSE LET i == CHOOSE x \in S : TRUE
       IN f[i] * (i + 1) + SumOver(S \ {i}, f)

\* Number of samples: m_quaternions.size() / NUM_QUAT_PARAMS (a sample is one
\* value of the model, standing for its 4 or 3 coordinates).
numQuat == Cardinality(DOMAIN m_quaternions)
numPos  == Cardinality(DOMAIN m_positions)

\* The samples the camera's order-8 Lagrange interpolation touches at time
\* tm: 4 points on each side of tm, among the n samples there are.
lagrangeInterpReads(tm, origin, step, n) ==
  {i \in 0..(n - 1) : /\ (tm - origin) \div step - 3 <= i
                       /\ i <= (tm - origin) \div step + 4}

\* The camera's groundToImage: the pixel of point P, seen at line time tm. It
\* depends on the samples interpolation touches at tm, and on P.
groundToImage(quats, poss, P, tm, t0q, dtq, t0p, dtp) ==
  << SumOver(lagrangeInterpReads(tm, t0q, dtq, Cardinality(DOMAIN quats)), quats) + P,
     SumOver(lagrangeInterpReads(tm, t0p, dtp, Cardinality(DOMAIN poss)), poss) + P >>

\* The pixel observation of the block (fixed).
m_observation == <<0, 0>>

\* The parameter blocks the solver hands to the cost function, in the order
\* addLsReprojectionErr registers them: the quaternions of the window, the
\* positions of the window, the triangulated point. The blocks point into
\* the camera's own arrays.
lsParameterBlocks(quats, poss, P, bq, eq, bp, ep) ==
  [k \in 0..((eq - bq) + (ep - bp)) |->
     IF k < eq - bq THEN quats[bq + k]
     ELSE IF k < (eq - bq) + (ep - bp) THEN poss[bp + (k - (eq - bq))]
     ELSE P]

\* The local copy of the samples after the overwrite loops of operator():
\* sample i of the window [beg, end) takes parameters[i + shift - beg].
overwriteSamples(samples, parameters, shift, beg, end) ==
  [i \in DOMAIN samples |->
     IF beg <= i /\ i < end THEN parameters[i + shift - beg] ELSE samples[i]]

\* LsPixelReprojErr::operator() when nothing throws: copy the camera,
\* overwrite the windows from the parameters, project, weigh.
LsPixelReprojErr(parameters, quats, poss, bq, eq, bp, ep, w, tm, t0q, dtq, t0p, dtp) ==
  LET camQ == overwriteSamples(quats, parameters, 0, bq, eq)
      camP == overwriteSamples(poss, parameters, eq - bq, bp, ep)
      P    == parameters[(eq - bq) + (ep - bp)]
      pix  == groundToImage(camQ, camP, P, tm, t0q, dtq, t0p, dtp)
  IN << w * (pix[1] - m_observation[1]), w * (pix[2] - m_observation[2]) >>

\* addLsReprojectionErr: the windows of the samples that can affect the pixel,
\* for the quaternions and for the positions; either calcIndexBounds throws.
addLsReprojectionErr ==
  /\ lsPc = "start"
  /\ begQuatIndex' = calcBegIndex(lsTime1, lsTime2, m_t0Quat, m_dtQuat, numQuat)
  /\ endQuatIndex' = calcEndIndex(lsTime1, lsTime2, m_t0Quat, m_dtQuat, numQuat)
  /\ IF calcIndexBoundsThrows(lsTime1, lsTime2, m_t0Quat, m_dtQuat, numQuat)
     THEN /\ lsPc' = "thrown"
          /\ UNCHANGED <<begPosIndex, endPosIndex>>
     ELSE /\ begPosIndex' = calcBegIndex(lsTime1, lsTime2, m_t0Ephem, m_dtEphem, numPos)
          /\ endPosIndex' = calcEndIndex(lsTime1, lsTime2, m_t0Ephem, m_dtEphem, numPos)
          /\ lsPc' = IF calcIndexBoundsThrows(lsTime1, lsTime2, m_t0Ephem,
                                              m_dtEphem, numPos)
                     THEN "thrown" ELSE "added"
  /\ UNCHANGED <<lsTime1, lsTime2, tri_point, m_weight, lineTime, lsResiduals>>
  /\ UNCHANGED notLsBlock

\* The solver evaluates the block: the point projects to a line whose time tm
\* lies in the window of times the block was built for.
EvaluateLs ==
  /\ lsPc \in {"added", "evaluated"}
  /\ \E tm \in Min(lsTime1, lsTime2)..Max(lsTime1, lsTime2) :
       /\ lineTime' = tm
       /\ lsResiduals' =
            LsPixelReprojErr(
              lsParameterBlocks(m_quaternions, m_positions, tri_point,
                                begQuatIndex, endQuatIndex, begPosIndex, endPosIndex),
              m_quaternions, m_positions,
              begQuatIndex, endQuatIndex, begPosIndex, endPosIndex,
              m_weight, tm, m_t0Quat, m_dtQuat, m_t0Ephem, m_dtEphem)
  /\ lsPc' = "evaluated"
  /\ UNCHANGED <<lsTime1, lsTime2, tri_point, m_weight, begQuatIndex, endQuatIndex,
                 begPosIndex, endPosIndex>>
  /\ UNCHANGED notLsBlock

\* The samples of the camera as loaded.
initialQuaternions == [i \in 0..(NumQuat - 1) |-> i % 2]
initialPositions   == [i \in 0..(NumPos - 1) |-> (i + 1) % 2]

\* How many samples other than sample i differ from the loaded ones.
numModified(samples, loaded, i) ==
  Cardinality({k \in DOMAIN samples : k # i /\ samples[k] # loaded[k]})

\* Between evaluations, a quaternion sample outside the block's quaternion
\* window takes another value.
ModifyQuatOutside ==
  /\ lsPc \in {"added", "evaluated"}
  /\ \E q \in DOMAIN m_quaternions, v \in 0..1 :
       /\ q < begQuatIndex \/ q >= endQuatIndex
       /\ v # m_quaternions[q]
       /\ numModified(m_quaternions, initialQuaternions, q) < MaxModified
       /\ m_quaternions' = [m_quaternions EXCEPT ![q] = v]
  /\ UNCHANGED <<m_positions, m_t0Quat, m_dtQuat, m_t0Ephem, m_dtEphem>>
  /\ UNCHANGED notCam

\* Between evaluations, a position sample outside the block's position window
\* takes another value.
ModifyPosOutside ==
  /\ lsPc \in {"added", "evaluated"}
  /\ \E p \in DOMAIN m_positions, v \in 0..1 :
       /\ p < begPosIndex \/ p >= endPosIndex
       /\ v # m_positions[p]
       /\ numModified(m_positions, initialPositions, p) < MaxModified
       /\ m_positions' = [m_positions EXCEPT ![p] = v]
  /\ UNCHANGED <<m_quaternions, m_t0Quat, m_dtQuat, m_t0Ephem, m_dtEphem>>
  /\ UNCHANGED notCam

CamInit ==
  /\ m_quaternions = initialQuaternions
  /\ m_positions = initialPositions
  /\ m_t0Quat = 0 /\ m_dtQuat \in {1, 2}
  /\ m_t0Ephem \in {0, 1} /\ m_dtEphem \in {1, 2}

LsInit ==
  /\ lsTime1 \in -MaxLsTime..MaxLsTime
  /\ lsTime2 \in -MaxLsTime..MaxLsTime
  /\ tri_point = 1
  /\ m_weight \in {1, 2}
  /\ begQuatIndex = -1 /\ endQuatIndex = -1
  /\ begPosIndex = -1 /\ endPosIndex = -1
  /\ lineTime = 0
  /\ lsResiduals = <<0, 0>>
  /\ lsPc = "start"

CamIdle ==
  /\ m_quaternions = initialQuaternions
  /\ m_positions = initialPositions
  /\ m_t0Quat = 0 /\ m_dtQuat = 1 /\ m_t0Ephem = 0 /\ m_dtEphem = 1

LsIdle ==
  /\ lsTime1 = 0 /\ lsTime2 = 0 /\ tri_point = 0 /\ m_weight = 1
  /\ begQuatIndex = -1 /\ endQuatIndex = -1
  /\ begPosIndex = -1 /\ endPosIndex = -1
  /\ lineTime = 0 /\ lsResiduals = <<0, 0>> /\ lsPc = "idle"

\* The sizes of the parameter blocks.
NUM_QUAT_PARAMS == 4
NUM_XYZ_PARAMS == 3
NUM_RIGID_PARAMS == 12

\* Create of LsPixelReprojErr and of RigLsFramePixelReprojErr: the sizes given
\* to AddParameterBlock, in order; the rig variant adds the rig transform.
costFunctionBlocks(bq, eq, bp, ep, onRig) ==
  LET n == (eq - bq) + (ep - bp)
  IN [k \in 0..(n + IF onRig THEN 1 ELSE 0) |->
        IF k < eq - bq THEN NUM_QUAT_PARAMS
        ELSE IF k <= n THEN NUM_XYZ_PARAMS
        ELSE NUM_RIGID_PARAMS]

\* The vector vars of addLsReprojectionErr and addRigLsFrameReprojectionErr:
\* the addresses given to AddResidualBlock, in order.
residualBlockVars(bq, eq, bp, ep, onRig) ==
  LET n == (eq - bq) + (ep - bp)
  IN [k \in 0..(n + IF onRig THEN 1 ELSE 0) |->
        IF k < eq - bq THEN [array |-> "m_quaternions", sample |-> bq + k]
        ELSE IF k < n THEN [array |-> "m_positions", sample |-> bp + (k - (eq - bq))]
        ELSE IF k = n THEN [array |-> "tri_point", sample |-> 0]
        ELSE [array |-> "ref_to_curr_trans", sample |-> 0]]

\* operator(): the block the quaternion qi is read from (shift is 0).
readQuatBlock(qi, bq) == qi + 0 - bq

\* operator(): the block the position pi is read from, shift being
\* m_endQuatIndex - m_begQuatIndex.
readPosBlock_noshift(pi, bq, eq, bp) == pi - bp
readPosBlock(pi, bq, eq, bp) == pi + (eq - bq) - bp

\* operator(): the block of the triangulated point, after both shifts, and
\* the block of the rig transform, one further.
readPointBlock(bq, eq, bp, ep) == (eq - bq) + (ep - bp)
readTransBlock(bq, eq, bp, ep) == (eq - bq) + (ep - bp) + 1

---------------------------------------------------------------------------
(* Concurrent evaluations of LsPixelReprojErr, FramePixelReprojErr and
   RigLsFramePixelReprojErr *)

g_big_pixel_value == 1000

Threads == 1..NumThreads

\* The cost function objects: the reprojection error of a pixel observed at
\* time tm, with the windows add*ReprojectionErr computes for it (the image
\* times of the lines line_extra before and after are tm - 1 and tm + 1).
costFunction(kind, tm) ==
  IF kind = "frame"
  THEN [kind |-> kind, time |-> 0, begQuat |-> 0, endQuat |-> 0,
        begPos |-> 0, endPos |-> 0]
  ELSE [kind |-> kind, time |-> tm,
        begQuat |-> calcBegIndex(tm - 1, tm + 1, m_t0Quat, m_dtQuat, numQuat),
        endQuat |-> calcEndIndex(tm - 1, tm + 1, m_t0Quat, m_dtQuat, numQuat),
        begPos  |-> calcBegIndex(tm - 1, tm + 1, m_t0Ephem, m_dtEphem, numPos),
        endPos  |-> calcEndIndex(tm - 1, tm + 1, m_t0Ephem, m_dtEphem, numPos)]

NoFun == [kind |-> "none", time |-> 0, begQuat |-> 0, endQuat |-> 0,
          begPos |-> 0, endPos |-> 0]

\* The parameter blocks registered for a cost function, at the values the
\* parameter store holds: for a frame camera (position, quaternion, point);
\* for a linescan camera the windows and the point; on a rig the rig
\* transform ref_to_curr_trans (value 1) follows the point.
parameterBlocks(f) ==
  LET n == (f.endQuat - f.begQuat) + (f.endPos - f.begPos)
      ls == lsParameterBlocks(m_quaternions, m_positions, tri_point,
                              f.begQuat, f.endQuat, f.begPos, f.endPos)
  IN IF f.kind = "frame"
     THEN [k \in 0..2 |-> IF k < 2 THEN m_frame_params[k] ELSE tri_point]
     ELSE IF f.kind = "ls" THEN ls
     ELSE [k \in 0..(n + 1) |-> IF k <= n THEN ls[k] ELSE 1]

\* The solver evaluates at trial values (numeric differentiation, a trial
\* step): the blocks shifted by d.
trialParameters(blocks, d) == [k \in DOMAIN blocks |-> blocks[k] + d]

\* The frame camera's groundToImage: the pixel of point P for the camera's
\* current position and quaternion.
frameGroundToImage(frame, P) == << frame[0] + P, 2 * frame[1] + P >>

\* linescanToCurrSensorTrans: the pose of the reference linescan camera
\* interpolated at the frame's exposure time tm, composed with the rig
\* transform; the result is the frame camera's position and quaternion.
linescanToCurrSensorTrans(quats, poss, tm, trans) ==
  [k \in 0..1 |->
     IF k = 0
     THEN SumOver(lagrangeInterpReads(tm, m_t0Ephem, m_dtEphem,
                                      Cardinality(DOMAIN poss)), poss) + trans
     ELSE SumOver(lagrangeInterpReads(tm, m_t0Quat, m_dtQuat,
                                      Cardinality(DOMAIN quats)), quats) + trans]

\* residuals[0..1] = m_weight * (pix - observation)
weightedResiduals(w, pix) ==
  << w * (pix[1] - m_observation[1]), w * (pix[2] - m_observation[2]) >>

\* A variant of saturatedResiduals that multiplies by the weight.
saturatedResiduals_weighted(w) == << w * g_big_pixel_value, w * g_big_pixel_value >>

\* The catch block: residuals[0] = residuals[1] = g_big_pixel_value.
saturatedResiduals(w) == << g_big_pixel_value, g_big_pixel_value >>

\* FramePixelReprojErr::operator() when nothing throws.
FramePixelReprojErr(parameters, frame, w) ==
  LET cam == [k \in DOMAIN frame |-> parameters[k]]
  IN weightedResiduals(w, frameGroundToImage(cam, parameters[2]))

\* RigLsFramePixelReprojErr::operator() when nothing throws.
RigLsFramePixelReprojErr(parameters, quats, poss, frame, f, w) ==
  LET nq     == f.endQuat - f.begQuat
      np     == f.endPos - f.begPos
      ls_q   == overwriteSamples(quats, parameters, 0, f.begQuat, f.endQuat)
      ls_p   == overwriteSamples(poss, parameters, nq, f.begPos, f.endPos)
      P      == parameters[nq + np]
      c2w    == linescanToCurrSensorTrans(ls_q, ls_p, f.time, parameters[nq + np + 1])
      cam    == [k \in DOMAIN frame |-> c2w[k]]
  IN weightedResiduals(w, frameGroundToImage(cam, P))

NoSamples == [i \in {} |-> 0]
NoCam == [quats |-> NoSamples, poss |-> NoSamples, frame |-> NoSamples]

\* The solver calls operator() of a cost function on thread p.
CallOperator(p) ==
  /\ evPc[p] = "idle"
  /\ \E kind \in {"ls", "frame", "rig"}, tm \in {1, 8} :
       LET f == costFunction(kind, tm) IN
       /\ kind # "frame" => f.begQuat < f.endQuat /\ f.begPos < f.endPos
       /\ evFun' = [evFun EXCEPT ![p] = f]
       /\ evParameters' =
            [evParameters EXCEPT ![p] = trialParameters(parameterBlocks(f), 1)]
  /\ evPc' = [evPc EXCEPT ![p] = "copy"]
  /\ UNCHANGED <<m_frame_params, evCam, evResiduals>>
  /\ UNCHANGED notEv

\* UsgsAstroLsSensorModel cam = *m_ls_model (or ls_cam = *m_ref_ls_model);
\* UsgsAstroFrameSensorModel cam = *m_frame_model.
CopyModel(p) ==
  /\ evPc[p] = "copy"
  /\ IF evFun[p].kind = "frame"
     THEN /\ evCam' = [evCam EXCEPT ![p].frame = m_frame_params]
          /\ evPc' = [evPc EXCEPT ![p] = "set"]
     ELSE /\ evCam' = [evCam EXCEPT ![p].quats = m_quaternions,
                                    ![p].poss = m_positions]
          /\ evPc' = [evPc EXCEPT ![p] = "quats"]
  /\ UNCHANGED <<m_frame_params, evFun, evParameters, evResiduals>>
  /\ UNCHANGED notEv

\* A variant of OverwriteQuaternions that writes to the camera the cost
\* function was created with (cam a reference, not a copy).
OverwriteQuaternions_inplace(p) ==
  /\ evPc[p] = "quats"
  /\ m_quaternions' = overwriteSamples(m_quaternions, evParameters[p], 0,
                                       evFun[p].begQuat, evFun[p].endQuat)
  /\ evPc' = [evPc EXCEPT ![p] = "positions"]
  /\ UNCHANGED <<m_positions, m_t0Quat, m_dtQuat, m_t0Ephem, m_dtEphem>>
  /\ UNCHANGED <<m_frame_params, evFun, evParameters, evCam, evResiduals>>
  /\ UNCHANGED <<idxVars, lsVars, rigVars, intrVars, gcpVars, posVars, storeVars, csmInitVars, viewVars, universeVars, centerVars, rollYawVars, gcpDistsVars, matchesVars>>

\* Update the relevant quaternions in the local copy.
OverwriteQuaternions(p) ==
  /\ evPc[p] = "quats"
  /\ evCam' = [evCam EXCEPT ![p].quats =
                 overwriteSamples(evCam[p].quats, evParameters[p], 0,
                                  evFun[p].begQuat, evFun[p].endQuat)]
  /\ evPc' = [evPc EXCEPT ![p] = "positions"]
  /\ UNCHANGED <<m_frame_params, evFun, evParameters, evResiduals>>
  /\ UNCHANGED notEv

\* Same for the positions, which follow the quaternions in the parameters.
OverwritePositions(p) ==
  /\ evPc[p] = "positions"
  /\ evCam' = [evCam EXCEPT ![p].poss =
                 overwriteSamples(evCam[p].poss, evParameters[p],
                                  evFun[p].endQuat - evFun[p].begQuat,
                                  evFun[p].begPos, evFun[p].endPos)]
  /\ evPc' = [evPc EXCEPT ![p] = IF evFun[p].kind = "ls" THEN "project" ELSE "trans"]
  /\ UNCHANGED <<m_frame_params, evFun, evParameters, evResiduals>>
  /\ UNCHANGED notEv

\* On a rig: the current camera to world transform from the linescan copy and
\* the rig transform, set into a copy of the frame camera.
SetRigFrameParameters(p) ==
  /\ evPc[p] = "trans"
  /\ LET f    == evFun[p]
         n    == (f.endQuat - f.begQuat) + (f.endPos - f.begPos)
         c2w  == linescanToCurrSensorTrans(evCam[p].quats, evCam[p].poss, f.time,
                                           evParameters[p][n + 1])
     IN evCam' = [evCam EXCEPT ![p].frame = [k \in DOMAIN m_frame_params |-> c2w[k]]]
  /\ evPc' = [evPc EXCEPT ![p] = "project"]
  /\ UNCHANGED <<m_frame_params, evFun, evParameters, evResiduals>>
  /\ UNCHANGED notEv

\* Frame camera: cam.setParameterValue for the position (parameters[0]) and
\* the quaternion (parameters[1]) of the copy.
SetFrameParameters(p) ==
  /\ evPc[p] = "set"
  /\ evCam' = [evCam EXCEPT ![p].frame =
                 [k \in DOMAIN evCam[p].frame |-> evParameters[p][k]]]
  /\ evPc' = [evPc EXCEPT ![p] = "project"]
  /\ UNCHANGED <<m_frame_params, evFun, evParameters, evResiduals>>
  /\ UNCHANGED notEv

\* groundToImage on the copy, then the weighted residuals; return true.
Project(p) ==
  /\ evPc[p] = "project"
  /\ LET f   == evFun[p]
         n   == (f.endQuat - f.begQuat) + (f.endPos - f.begPos)
         P   == IF f.kind = "frame" THEN evParameters[p][2] ELSE evParameters[p][n]
         pix == IF f.kind = "ls"
                THEN groundToImage(evCam[p].quats, evCam[p].poss, P, f.time,
                                   m_t0Quat, m_dtQuat, m_t0Ephem, m_dtEphem)
                ELSE frameGroundToImage(evCam[p].frame, P)
     IN evResiduals' = [evResiduals EXCEPT ![p] = weightedResiduals(m_weight, pix)]
  /\ evPc' = [evPc EXCEPT ![p] = "returned"]
  /\ UNCHANGED <<m_frame_params, evFun, evParameters, evCam>>
  /\ UNCHANGED notEv

\* A statement of the try block throws: the copy of the camera, a
\* setParameterValue, linescanToCurrSensorTrans or groundToImage. An
\* exception derived from std::exception is caught by
\* catch (std::exception const& e): saturated residuals, return true. Any
\* other exception leaves operator().
Throw(p) ==
  /\ evPc[p] \in {"copy", "set", "trans", "project"}
  /\ \E e \in {"std::exception", "other"} :
       IF e = "std::exception"
       THEN /\ evResiduals' = [evResiduals EXCEPT ![p] = saturatedResiduals(m_weight)]
            /\ evPc' = [evPc EXCEPT ![p] = "caught"]
       ELSE /\ evPc' = [evPc EXCEPT ![p] = "propagated"]
            /\ UNCHANGED evResiduals
  /\ UNCHANGED <<m_frame_params, evFun, evParameters, evCam>>
  /\ UNCHANGED notEv

EvInit ==
  /\ m_frame_params = [k \in 0..1 |-> k]
  /\ evFun = [p \in Threads |-> NoFun]
  /\ evParameters = [p \in Threads |-> NoSamples]
  /\ evCam = [p \in Threads |-> NoCam]
  /\ evResiduals = [p \in Threads |-> <<0, 0>>]
  /\ evPc = [p \in Threads |-> "idle"]

EvIdle ==
  /\ m_frame_params = [k \in 0..1 |-> k]
  /\ evFun = <<>> /\ evParameters = <<>> /\ evCam = <<>>
  /\ evResiduals = <<>> /\ evPc = <<>>

\* The problem the threads evaluate: one camera, one weight, one point.
EvProblemInit ==
  /\ lsTime1 = 0 /\ lsTime2 = 0 /\ tri_point = 1
  /\ m_weight \in 1..MaxWeight
  /\ begQuatIndex = -1 /\ endQuatIndex = -1
  /\ begPosIndex = -1 /\ endPosIndex = -1
  /\ lineTime = 0 /\ lsResiduals = <<0, 0>> /\ lsPc = "idle"

---------------------------------------------------------------------------
(* readRigConfig *)

\* The lines of a rig file, comments and empty lines left out (both versions
\* of readConfigVals skip them): the key (first token), the number n of values
\* after it, and what the values say. A "blank" line holds only white space.
SensorNames == {"a", "b"}

Line(key, n, val) == [key |-> key, n |-> n, val |-> val]
EndOfFile == Line("<eof>", 0, "")
BlankLine == Line("", 0, "")

FileLines ==
  {Line("ref_sensor_name:", 1, nm) : nm \in SensorNames}
  \cup {Line("sensor_name:", 1, nm) : nm \in SensorNames}
  \cup {Line("focal_length:", n, "") : n \in {1, 2}}
  \cup {Line("optical_center:", 2, "")}
  \cup {Line("distortion_coeffs:", n, "") : n \in {0, 1, 2}}
  \cup {Line("distortion_type:", 1, ty) : ty \in {"none", "fisheye", "radtan"}}
  \cup {Line("image_size:", 2, ""), Line("distorted_crop_size:", 2, ""),
        Line("undistorted_image_size:", 2, "")}
  \cup {Line("ref_to_sensor_transform:", 12, tr) : tr \in {"identity", "zero", "other"}}
  \cup {Line("depth_to_image_transform:", 12, "identity")}
  \cup {Line("ref_to_sensor_timestamp_offset:", 1, off) : off \in {0, 1}}
  \cup {Line("junk:", 1, ""), BlankLine, EndOfFile}

\* R = RigSet()
RigSet == [cam_set |-> <<>>, cam_names |-> <<>>, ref_to_cam_trans |-> <<>>,
           depth_to_image |-> <<>>, ref_to_cam_timestamp_offsets |-> <<>>,
           cam_params |-> <<>>]

\* The lines getline can take next: the line the position was put back
\* before, or any line of a file. A file describes at most MaxSensors sensors.
nextLines ==
  IF f_rewound THEN {f_line}
  ELSE IF Len(R.cam_names) < MaxSensors THEN FileLines
  ELSE {l \in FileLines : l.key \notin {"sensor_name:", "ref_sensor_name:"}}

\* readConfigVals: the first line that is not skipped must start with the
\* tag and, when desired_num_vals >= 0, hold that many values; at the end of
\* the file, or otherwise, it throws std::runtime_error. (The version reading
\* numbers skips a blank line, so such a line is never the one it stops at.)
readConfigValsOk(l, tag, desired_num_vals) ==
  /\ l.key = tag
  /\ desired_num_vals >= 0 => l.n = desired_num_vals

\* LOG(FATAL): the process ends and no rig set is returned.
Fatal(l) ==
  /\ rigPc' = "fatal"
  /\ R' = RigSet
  /\ f_line' = l
  /\ f_rewound' = FALSE
  /\ UNCHANGED <<have_rig_transforms, distortion>>

\* try { readConfigVals(f, "ref_sensor_name:", 1, str_vals); ... } catch (...)
\* { f.seekg(curr_pos) }: a new rig starts, or the position goes back.
ReadRefSensorName ==
  /\ rigPc = "ref_sensor_name:"
  /\ \E l \in nextLines :
       /\ f_line' = l
       /\ IF readConfigValsOk(l, "ref_sensor_name:", 1)
          THEN /\ R' = [R EXCEPT !.cam_set = Append(R.cam_set, <<>>)]
               /\ f_rewound' = FALSE
          ELSE /\ UNCHANGED R
               /\ f_rewound' = TRUE
  /\ rigPc' = "sensor_name:"
  /\ UNCHANGED <<have_rig_transforms, distortion>>
  /\ UNCHANGED notRig

\* try { readConfigVals(f, "sensor_name:", 1, str_vals); } catch (...)
\* { return; }, then the sensor is stored in R.cam_set.back() and R.cam_names.
\* With no rig yet, R.cam_set.back() is undefined behaviour: the process
\* crashes, or the write to cam_set is lost.
ReadSensorName ==
  /\ rigPc = "sensor_name:"
  /\ \E l \in nextLines :
       /\ f_line' = l
       /\ f_rewound' = FALSE
       /\ IF ~readConfigValsOk(l, "sensor_name:", 1)
          THEN rigPc' = "returned" /\ UNCHANGED R
          ELSE IF Len(R.cam_set) = 0
          THEN \/ rigPc' = "crashed" /\ UNCHANGED R
               \/ /\ rigPc' = "focal_length:"
                  /\ R' = [R EXCEPT !.cam_names = Append(R.cam_names, l.val)]
          ELSE /\ rigPc' = "focal_length:"
               /\ R' = [R EXCEPT
                          !.cam_set[Len(R.cam_set)] =
                             Append(R.cam_set[Len(R.cam_set)], l.val),
                          !.cam_names = Append(R.cam_names, l.val)]
  /\ UNCHANGED <<have_rig_transforms, distortion>>
  /\ UNCHANGED notRig

\* The keys whose values are read and checked only for their number, with
\* that number and the key read next.
plainFields ==
  { <<"focal_length:", 1, "optical_center:">>,
    <<"optical_center:", 2, "distortion_coeffs:">>,
    <<"image_size:", 2, "distorted_crop_size:">>,
    <<"distorted_crop_size:", 2, "undistorted_image_size:">> }

\* readConfigVals(f, "focal_length:", 1, vals), and likewise optical_center,
\* image_size, distorted_crop_size.
ReadPlainField ==
  /\ \E fld \in plainFields, l \in nextLines :
       /\ rigPc = fld[1]
       /\ IF readConfigValsOk(l, fld[1], fld[2])
          THEN /\ rigPc' = fld[3]
               /\ f_line' = l
               /\ f_rewound' = FALSE
               /\ UNCHANGED <<have_rig_transforms, R, distortion>>
          ELSE Fatal(l)
  /\ UNCHANGED notRig

\* readConfigVals(f, "distortion_coeffs:", -1, vals): 0, 1, 4, 5 or more.
ReadDistortionCoeffs ==
  /\ rigPc = "distortion_coeffs:"
  /\ \E l \in nextLines :
       IF /\ readConfigValsOk(l, "distortion_coeffs:", -1)
          /\ ~(l.n # 0 /\ l.n # 1 /\ l.n # 4 /\ l.n < 5)
       THEN /\ distortion' = l.n
            /\ rigPc' = "distortion_type:"
            /\ f_line' = l
            /\ f_rewound' = FALSE
            /\ UNCHANGED <<have_rig_transforms, R>>
       ELSE Fatal(l)
  /\ UNCHANGED notRig

\* The distortion type after the backward-compatible rewrite of a fisheye
\* model with 1 coefficient.
distortionTypeStr(n, ty) == IF n = 1 /\ ty = "fisheye" THEN "fov" ELSE ty

\* The validation of the distortion type against the number of coefficients.
distortionTypeOk(n, ty) ==
  /\ n = 0 => ty = "none"
  /\ n = 1 => distortionTypeStr(n, ty) = "fov"
  /\ n = 4 => distortionTypeStr(n, ty) \in {"fisheye", "radtan"}
  /\ n = 5 => distortionTypeStr(n, ty) = "radtan"
  /\ n > 5 => distortionTypeStr(n, ty) = "rpc"
  /\ distortionTypeStr(n, ty) \in {"none", "fov", "fisheye", "radtan", "rpc"}

\* readConfigVals(f, "distortion_type:", 1, str_vals) and its validation.
ReadDistortionType ==
  /\ rigPc = "distortion_type:"
  /\ \E l \in nextLines :
       IF readConfigValsOk(l, "distortion_type:", 1) /\ distortionTypeOk(distortion, l.val)
       THEN /\ distortion' = distortionTypeStr(distortion, l.val)
            /\ rigPc' = "image_size:"
            /\ f_line' = l
            /\ f_rewound' = FALSE
            /\ UNCHANGED <<have_rig_transforms, R>>
       ELSE Fatal(l)
  /\ UNCHANGED notRig

\* readConfigVals(f, "undistorted_image_size:", 2, vals);
\* R.cam_params.push_back(params).
ReadUndistortedImageSize ==
  /\ rigPc = "undistorted_image_size:"
  /\ \E l \in nextLines :
       IF readConfigValsOk(l, "undistorted_image_size:", 2)
       THEN /\ R' = [R EXCEPT !.cam_params = Append(R.cam_params, distortion)]
            /\ rigPc' = "ref_to_sensor_transform:"
            /\ f_line' = l
            /\ f_rewound' = FALSE
            /\ UNCHANGED <<have_rig_transforms, distortion>>
       ELSE Fatal(l)
  /\ UNCHANGED notRig

\* readConfigVals(f, "ref_to_sensor_transform:", 12, vals);
\* R.ref_to_cam_trans.push_back(vecToAffine(vals)); with rig transforms
\* expected, a zero matrix is fatal.
ReadRefToSensorTransform ==
  /\ rigPc = "ref_to_sensor_transform:"
  /\ \E l \in nextLines :
       IF /\ readConfigValsOk(l, "ref_to_sensor_transform:", 12)
          /\ ~(have_rig_transforms /\ l.val = "zero")
       THEN /\ R' = [R EXCEPT !.ref_to_cam_trans = Append(R.ref_to_cam_trans, l.val)]
            /\ rigPc' = "depth_to_image_transform:"
            /\ f_line' = l
            /\ f_rewound' = FALSE
            /\ UNCHANGED <<have_rig_transforms, distortion>>
       ELSE Fatal(l)
  /\ UNCHANGED notRig

\* readConfigVals(f, "depth_to_image_transform:", 12, vals);
\* R.depth_to_image.push_back(vecToAffine(vals)).
ReadDepthToImageTransform ==
  /\ rigPc = "depth_to_image_transform:"
  /\ \E l \in nextLines :
       IF readConfigValsOk(l, "depth_to_image_transform:", 12)
       THEN /\ R' = [R EXCEPT !.depth_to_image = Append(R.depth_to_image, l.val)]
            /\ rigPc' = "ref_to_sensor_timestamp_offset:"
            /\ f_line' = l
            /\ f_rewound' = FALSE
            /\ UNCHANGED <<have_rig_transforms, distortion>>
       ELSE Fatal(l)
  /\ UNCHANGED notRig

\* readConfigVals(f, "ref_to_sensor_timestamp_offset:", 1, vals);
\* R.ref_to_cam_timestamp_offsets.push_back(timestamp_offset); the loop
\* while (1) goes on with the next sensor.
ReadTimestampOffset ==
  /\ rigPc = "ref_to_sensor_timestamp_offset:"
  /\ \E l \in nextLines :
       IF readConfigValsOk(l, "ref_to_sensor_timestamp_offset:", 1)
       THEN /\ R' = [R EXCEPT !.ref_to_cam_timestamp_offsets =
                                  Append(R.ref_to_cam_timestamp_offsets, l.val)]
            /\ rigPc' = "ref_sensor_name:"
            /\ f_line' = l
            /\ f_rewound' = FALSE
            /\ UNCHANGED <<have_rig_transforms, distortion>>
       ELSE Fatal(l)
  /\ UNCHANGED notRig

RigInit ==
  /\ have_rig_transforms \in BOOLEAN
  /\ f_line = BlankLine
  /\ f_rewound = FALSE
  /\ R = RigSet
  /\ distortion = 0
  /\ rigPc = "ref_sensor_name:"

RigIdle ==
  /\ have_rig_transforms = FALSE
  /\ f_line = BlankLine
  /\ f_rewound = FALSE
  /\ R = RigSet
  /\ distortion = 0
  /\ rigPc = "idle"

---------------------------------------------------------------------------
(* load_intrinsics_options *)

\* A string is a sequence of pieces: a digit, a separator character, or a
\* run of letters such as "focal_length". Pieces next to each other with no
\* separator between them form one word.
Digits == {"0", "1", "2", "3", "4", "5", "6", "7", "8", "9"}

isdigit(c) == c \in Digits

digitValue(c) ==
  CASE c = "0" -> 0 [] c = "1" -> 1 [] c = "2" -> 2 [] c = "3" -> 3
    [] c = "4" -> 4 [] c = "5" -> 5 [] c = "6" -> 6 [] c = "7" -> 7
    [] c = "8" -> 8 [] c = "9" -> 9 [] OTHER -> 0

\* std::string sep = "\\:;, \t\r\n"
sep == {"\\", ":", ";", ",", " ", "\t", "\r", "\n"}

\* What operator>> of a stream skips between words.
whitespace == {" ", "\t", "\r", "\n"}

\* boost::to_lower
to_lower(str) ==
  [i \in DOMAIN str |->
     CASE str[i] = "ALL" -> "all"
       [] str[i] = "NONE" -> "none"
       [] str[i] = "FOCAL_LENGTH" -> "focal_length"
       [] OTHER -> str[i]]

replace_separators_with_space(str) ==
  [i \in DOMAIN str |-> IF str[i] \in sep THEN " " ELSE str[i]]

\* while (is >> val) ret.push_back(val), with ret and the word being read.
RECURSIVE readWords(_, _, _)
readWords(str, ret, val) ==
  IF str = <<>> THEN (IF val = <<>> THEN ret ELSE Append(ret, val))
  ELSE IF Head(str) \in whitespace
  THEN readWords(Tail(str), IF val = <<>> THEN ret ELSE Append(ret, val), <<>>)
  ELSE readWords(Tail(str), ret, Append(val, Head(str)))

split_str_with_space(str) == readWords(str, <<>>, <<>>)

is_str_non_neg_integer(str) ==
  str # <<>> /\ \A it \in DOMAIN str : isdigit(str[it])

\* atoi of a string of digits
RECURSIVE atoi(_)
atoi(str) ==
  IF str = <<>> THEN 0
  ELSE 10 * atoi(SubSeq(str, 1, Len(str) - 1)) + digitValue(str[Len(str)])

\* The options that set each flag, and the options that are known.
floatsCenter(opt) == opt = <<"optical_center">> \/ opt = <<"all">>
floatsFocus(opt) == opt = <<"focal_length">> \/ opt = <<"all">>
floatsDistortion_notall(opt) == opt = <<"other_intrinsics">> \/ opt = <<"distortion">>
floatsDistortion(opt) ==
  opt = <<"other_intrinsics">> \/ opt = <<"distortion">> \/ opt = <<"all">>
knownOption(opt) ==
  floatsCenter(opt) \/ floatsFocus(opt) \/ floatsDistortion(opt) \/ opt = <<"none">>

\* The three output vectors, all false, with std::max(num_sensors, 1) entries.
allFalse(num_sensors) == [i \in 1..Max(num_sensors, 1) |-> FALSE]

\* The state of a parse: whether it threw, the current sensor, the ids seen,
\* and the three output vectors (which the parse writes in place).
parseState(center, focus, distortion_) ==
  [thrown |-> FALSE, sensor_id |-> 0, seen_ids |-> {},
   float_center |-> center, float_focus |-> focus, float_distortion |-> distortion_]

throwFrom(st) == [st EXCEPT !.thrown = TRUE]

\* The assignments float_center[sensor_id] = true, ... made for one option.
setFlags(st, opt) ==
  [st EXCEPT
     !.float_center = [i \in DOMAIN @ |->
                         IF i = st.sensor_id + 1 /\ floatsCenter(opt) THEN TRUE ELSE @[i]],
     !.float_focus = [i \in DOMAIN @ |->
                         IF i = st.sensor_id + 1 /\ floatsFocus(opt) THEN TRUE ELSE @[i]],
     !.float_distortion = [i \in DOMAIN @ |->
                         IF i = st.sensor_id + 1 /\ floatsDistortion(opt) THEN TRUE ELSE @[i]]]

sensorIdOutOfBounds(sensor_id, num_sensors) ==
  sensor_id < 0 \/ sensor_id >= num_sensors

isRepeated_never(seen_ids, sensor_id) == FALSE
isRepeated(seen_ids, sensor_id) == sensor_id \in seen_ids

\* for (size_t it = 0; it < options.size(); it++) of fine_grained_parse
RECURSIVE fineLoop(_, _, _, _)
fineLoop(options, it, num_sensors, st) ==
  IF it > Len(options) THEN st
  ELSE IF is_str_non_neg_integer(options[it])
  THEN LET sensor_id == atoi(options[it]) - 1
       IN IF sensorIdOutOfBounds(sensor_id, num_sensors)
             \/ isRepeated(st.seen_ids, sensor_id)
          THEN throwFrom([st EXCEPT !.sensor_id = sensor_id])
          ELSE fineLoop(options, it + 1, num_sensors,
                        [st EXCEPT !.sensor_id = sensor_id,
                                   !.seen_ids = @ \cup {sensor_id}])
  ELSE IF knownOption(options[it])
  THEN fineLoop(options, it + 1, num_sensors, setFlags(st, options[it]))
  ELSE throwFrom(st)

fine_grained_parse(share_intrinsics_per_sensor, num_sensors, options, out) ==
  IF ~share_intrinsics_per_sensor \/ num_sensors <= 0 \/ options = <<>>
  THEN throwFrom(out)
  ELSE LET wiped == parseState(allFalse(num_sensors), allFalse(num_sensors),
                               allFalse(num_sensors))
       IN IF ~is_str_non_neg_integer(options[1])
          THEN throwFrom(wiped)
          ELSE fineLoop(options, 1, num_sensors, wiped)

\* for (size_t it = 0; it < options.size(); it++) of coarse_grained_parse
RECURSIVE coarseLoop(_, _, _)
coarseLoop(options, it, st) ==
  IF it > Len(options) THEN st
  ELSE IF is_str_non_neg_integer(options[1]) THEN throwFrom(st)
  ELSE IF knownOption(options[it])
  THEN coarseLoop(options, it + 1, setFlags(st, options[it]))
  ELSE throwFrom(st)

\* Distribute for all sensors.
distribute_none(v, num_sensors) == v
distribute(v, num_sensors) ==
  [i \in DOMAIN v |-> IF i <= num_sensors THEN v[1] ELSE v[i]]

coarse_grained_parse(num_sensors, options, out) ==
  IF num_sensors < 0
  THEN throwFrom(parseState(<<>>, <<>>, <<>>))
  ELSE LET st == coarseLoop(options, 1,
                            parseState(allFalse(num_sensors), allFalse(num_sensors),
                                       allFalse(num_sensors)))
       IN IF st.thrown THEN st
          ELSE [st EXCEPT
                  !.float_center = distribute(@, num_sensors),
                  !.float_focus = distribute(@, num_sensors),
                  !.float_distortion = distribute(@, num_sensors)]

\* std::vector<bool>::resize(1, false)
resize1(v) == IF v = <<>> THEN <<FALSE>> ELSE <<v[1]>>

floatAllStr ==
  <<"focal_length", " ", "optical_center", " ", "other_intrinsics">>

\* The float string after to_lower and the replacement of "", "all", "none".
floatStrToParse(str) ==
  LET lower == to_lower(str)
      expanded == IF lower = <<>> \/ lower = <<"all">> THEN floatAllStr ELSE lower
  IN  IF expanded = <<"none">> THEN <<>> ELSE expanded

\* The share string after to_lower and the replacement of "all", "none".
shareStrToParse(specified, str) ==
  LET lower == to_lower(str)
  IN  IF ~specified THEN floatAllStr
      ELSE IF lower = <<"all">> THEN floatAllStr
      ELSE IF lower = <<"none">> THEN <<>>
      ELSE lower

\* while (is >> val) over the share string: the flags set, or a throw.
RECURSIVE shareLoop(_, _, _)
shareLoop(vals, it, o) ==
  IF it > Len(vals) THEN [thrown |-> FALSE, options |-> o]
  ELSE IF vals[it] = <<"focal_length">>
  THEN shareLoop(vals, it + 1, [o EXCEPT !.focus_shared = TRUE])
  ELSE IF vals[it] = <<"optical_center">>
  THEN shareLoop(vals, it + 1, [o EXCEPT !.center_shared = TRUE])
  ELSE IF vals[it] = <<"other_intrinsics">> \/ vals[it] = <<"distortion">>
  THEN shareLoop(vals, it + 1, [o EXCEPT !.distortion_shared = TRUE])
  ELSE [thrown |-> TRUE, options |-> o]

\* The options split from the float string as the parsers receive them.
floatOptions(str) ==
  split_str_with_space(replace_separators_with_space(floatStrToParse(str)))

\* fine_grained_parse is chosen when the first option is an integer.
isFineGrained(float_options) ==
  float_options # <<>> /\ is_str_non_neg_integer(float_options[1])

load_intrinsics_options ==
  /\ intrPc = "start"
  /\ LET shared == [intrinsics_options EXCEPT
                      !.focus_shared = TRUE,
                      !.center_shared = TRUE,
                      !.distortion_shared = TRUE,
                      !.float_center = resize1(@),
                      !.float_focus = resize1(@),
                      !.float_distortion = resize1(@)]
         across == shared_is_specified /\ ~intrinsics_options.share_intrinsics_per_sensor
         unshared == IF across
                     THEN [shared EXCEPT !.focus_shared = FALSE,
                                         !.center_shared = FALSE,
                                         !.distortion_shared = FALSE]
                     ELSE shared
         float_options == floatOptions(intrinsics_to_float_str)
         out == parseState(shared.float_center, shared.float_focus,
                           shared.float_distortion)
         st == IF isFineGrained(float_options)
               THEN fine_grained_parse(intrinsics_options.share_intrinsics_per_sensor,
                                       intrinsics_options.num_sensors, float_options, out)
               ELSE coarse_grained_parse(intrinsics_options.num_sensors,
                                         float_options, out)
         floated == [unshared EXCEPT !.float_center = st.float_center,
                                     !.float_focus = st.float_focus,
                                     !.float_distortion = st.float_distortion]
         sh == IF across
               THEN shareLoop(split_str_with_space(replace_separators_with_space(
                                shareStrToParse(shared_is_specified,
                                                intrinsics_to_share_str))),
                              1, floated)
               ELSE [thrown |-> FALSE, options |-> floated]
     IN
     IF (intrinsics_to_float_str # <<>> \/ intrinsics_to_share_str # <<>>)
        /\ ~solve_intrinsics
     THEN intrinsics_options' = shared /\ intrPc' = "thrown"
     ELSE IF ~solve_intrinsics
     THEN intrinsics_options' = shared /\ intrPc' = "returned"
     ELSE IF st.thrown
     THEN intrinsics_options' = floated /\ intrPc' = "thrown"
     ELSE /\ intrinsics_options' = sh.options
          /\ intrPc' = IF sh.thrown THEN "thrown" ELSE "returned"
  /\ UNCHANGED <<solve_intrinsics, shared_is_specified, intrinsics_to_float_str,
                 intrinsics_to_share_str>>
  /\ UNCHANGED notIntr

\* The caller's options before the call.
IntrinsicOptions(share_intrinsics_per_sensor, num_sensors) ==
  [share_intrinsics_per_sensor |-> share_intrinsics_per_sensor,
   num_sensors |-> num_sensors,
   float_center |-> <<>>, float_focus |-> <<>>, float_distortion |-> <<>>,
   focus_shared |-> FALSE, center_shared |-> FALSE, distortion_shared |-> FALSE]

\* The caller's options as an earlier call without intrinsics to solve for
\* left them.
LoadedOptions(share_intrinsics_per_sensor, num_sensors) ==
  [IntrinsicOptions(share_intrinsics_per_sensor, num_sensors) EXCEPT
     !.float_center = <<FALSE>>, !.float_focus = <<FALSE>>,
     !.float_distortion = <<FALSE>>,
     !.focus_shared = TRUE, !.center_shared = TRUE, !.distortion_shared = TRUE]

\* The words a float string is made of, and the strings made of up to
\* MaxOptions words joined by one separator.
IndexWords == {<<d>> : d \in {c \in Digits : digitValue(c) <= MaxIndex}}
OptionWords ==
  IndexWords \cup {<<"optical_center">>, <<"focal_length">>, <<"other_intrinsics">>,
                   <<"distortion">>, <<"all">>, <<"none">>, <<"bogus">>}

RECURSIVE joinWords(_, _)
joinWords(words, s) ==
  IF words = <<>> THEN <<>>
  ELSE IF Len(words) = 1 THEN words[1]
  ELSE words[1] \o <<s>> \o joinWords(Tail(words), s)

FloatStrings ==
  {joinWords(words, s) :
     words \in UNION {[1..k -> OptionWords] : k \in 0..MaxOptions}, s \in {" ", ":"}}

\* The two strings of the documentation, with their numbers of sensors.
fineExampleStr ==
  <<"1", ":", "focal_length", ",", "optical_center", " ",
    "2", ":", "all", " ", "3", ":", "none">>
coarseExampleStr == <<"focal_length">>

\* Float strings of every shape, all intrinsics shared, intrinsics solved for.
IntrInitFloat ==
  /\ solve_intrinsics = TRUE
  /\ shared_is_specified = FALSE
  /\ intrinsics_to_share_str = <<>>
  /\ \/ /\ intrinsics_to_float_str \in FloatStrings
        /\ \E share \in BOOLEAN, n \in 1..MaxNumSensors :
             intrinsics_options = IntrinsicOptions(share, n)
     \/ /\ intrinsics_to_float_str = fineExampleStr
        /\ intrinsics_options = IntrinsicOptions(TRUE, 3)
     \/ /\ intrinsics_to_float_str = coarseExampleStr
        /\ \E share \in BOOLEAN : intrinsics_options = IntrinsicOptions(share, 4)
  /\ intrPc = "start"

\* A few float strings with every way of giving the share string.
IntrInitShare ==
  /\ solve_intrinsics \in BOOLEAN
  /\ shared_is_specified \in BOOLEAN
  /\ intrinsics_to_share_str \in
       {<<>>, <<"all">>, <<"none">>, <<"focal_length">>, <<"bogus">>,
        <<"optical_center", ",", "distortion">>, <<"focal_length", " ", "bogus">>}
  /\ intrinsics_to_float_str \in
       {<<>>, <<"ALL">>, <<"none">>, <<"optical_center">>, <<"1", ":", "all">>,
        <<"1", ":", "0", "1">>, <<"bogus">>, <<"focal_length", " ", "bogus">>}
  /\ \E share \in BOOLEAN, n \in 0..1 :
       intrinsics_options \in {IntrinsicOptions(share, n), LoadedOptions(share, n)}
  /\ intrPc = "start"

IntrInit == IntrInitFloat \/ IntrInitShare

IntrIdle ==
  /\ solve_intrinsics = FALSE
  /\ shared_is_specified = FALSE
  /\ intrinsics_to_float_str = <<>>
  /\ intrinsics_to_share_str = <<>>
  /\ intrinsics_options = IntrinsicOptions(FALSE, 0)
  /\ intrPc = "idle"

---------------------------------------------------------------------------
(* init_pinhole_model_with_multi_gcp *)

MIN_NUM_GOOD_GCP == 3

\* A control point: its type, whether its ground position is the zero
\* vector, and what triangulate_control_point gives for it with the current
\* cameras: whether the triangulated position is the zero vector, and the
\* sign of the error returned (positive for a success).
ControlPoint(type, position, tri_position, err) ==
  [type |-> type, position |-> position, tri_position |-> tri_position, err |-> err]

ControlPoints ==
  { ControlPoint("TiePoint", "nonzero", "nonzero", 1),
    ControlPoint("GroundControlPoint", "nonzero", "nonzero", 1),
    ControlPoint("GroundControlPoint", "zero", "nonzero", 1),
    ControlPoint("GroundControlPoint", "nonzero", "zero", -1),
    ControlPoint("GroundControlPoint", "nonzero", "nonzero", -1) }

\* The test of the counting loop.
countsAsGood(cp, num_cams) ==
  /\ cp.tri_position # "zero"
  /\ cp.position # "zero"
  /\ (cp.err > 0 \/ num_cams = 1)

\* The test of the filling loop (points that are not skipped).
fillsColumn(cp, num_cams) ==
  ~(cp.tri_position = "zero" \/ cp.position = "zero")

\* One iteration of the loop that counts the good ground control points.
CountGcp ==
  /\ gcpPc = "count"
  /\ ipt < Len(cnet)
  /\ num_good_gcp' =
       IF /\ cnet[ipt + 1].type = "GroundControlPoint"
          /\ countsAsGood(cnet[ipt + 1], camera_models)
       THEN num_good_gcp + 1 ELSE num_good_gcp
  /\ ipt' = ipt + 1
  /\ UNCHANGED <<cnet, camera_models, index, points_in, gcpPc>>
  /\ UNCHANGED notGcp

\* After the count: throw with fewer than MIN_NUM_GOOD_GCP good points, else
\* allocate points_in(3, num_good_gcp) and start filling.
CheckNumGood ==
  /\ gcpPc = "count"
  /\ ipt = Len(cnet)
  /\ IF num_good_gcp < MIN_NUM_GOOD_GCP
     THEN gcpPc' = "thrown" /\ UNCHANGED ipt
     ELSE gcpPc' = "fill" /\ ipt' = 0
  /\ UNCHANGED <<cnet, camera_models, num_good_gcp, index, points_in>>
  /\ UNCHANGED notGcp

\* One iteration of the loop that stores the points. Writing column index of
\* a matrix with num_good_gcp columns when index >= num_good_gcp is out of
\* bounds: the process crashes, or the write goes through.
FillGcp ==
  /\ gcpPc = "fill"
  /\ ipt < Len(cnet)
  /\ IF /\ cnet[ipt + 1].type = "GroundControlPoint"
        /\ fillsColumn(cnet[ipt + 1], camera_models)
     THEN \/ /\ points_in' = points_in \cup {<<index, ipt>>}
             /\ index' = index + 1
             /\ ipt' = ipt + 1
             /\ UNCHANGED gcpPc
          \/ /\ index >= num_good_gcp
             /\ gcpPc' = "crashed"
             /\ UNCHANGED <<points_in, index, ipt>>
     ELSE /\ ipt' = ipt + 1
          /\ UNCHANGED <<points_in, index, gcpPc>>
  /\ UNCHANGED <<cnet, camera_models, num_good_gcp>>
  /\ UNCHANGED notGcp

\* vw::math::find_3D_transform(points_in, points_out, ...)
SolveGcp ==
  /\ gcpPc = "fill"
  /\ ipt = Len(cnet)
  /\ gcpPc' = "solved"
  /\ UNCHANGED <<cnet, camera_models, ipt, num_good_gcp, index, points_in>>
  /\ UNCHANGED notGcp

GcpInit ==
  /\ cnet \in UNION {[1..k -> ControlPoints] : k \in 0..MaxCnetPoints}
  /\ camera_models \in 1..2
  /\ ipt = 0
  /\ num_good_gcp = 0
  /\ index = 0
  /\ points_in = {}
  /\ gcpPc = "count"

GcpIdle ==
  /\ cnet = <<>>
  /\ camera_models = 1
  /\ ipt = 0
  /\ num_good_gcp = 0
  /\ index = 0
  /\ points_in = {}
  /\ gcpPc = "idle"

---------------------------------------------------------------------------
(* init_pinhole_model_with_camera_positions, apply_rigid_transform *)

MIN_NUM_MATCHES == 3

\* No similarity solved yet.
NoTransform == [solved_from |-> <<>>]

\* A position or pose: the value of <<"cam", i>> or <<"pt", j>> before the
\* call, as the similarity "by" maps it (NoTransform: as it was).
untouched(of) == [by |-> NoTransform, of |-> of]

\* The cameras and the points before the call.
initialModels(n) == [i \in 1..n |-> untouched(<<"cam", i>>)]
initialPoints(types) ==
  [j \in 1..Len(types) |-> [type |-> types[j], position |-> untouched(<<"pt", j>>)]]

\* The number of candidates that are not Vector3(0,0,0).
RECURSIVE numMatchesFound(_)
numMatchesFound(gcc) ==
  IF gcc = <<>> THEN 0
  ELSE (IF Head(gcc) # 0 THEN 1 ELSE 0) + numMatchesFound(Tail(gcc))

\* The columns of points_in and points_out: for each camera with a
\* candidate, in order, its center and the candidate.
RECURSIVE matchColumns(_, _, _)
matchColumns(gcc, models, i) ==
  IF i > Len(gcc) THEN <<>>
  ELSE IF gcc[i] = 0 THEN matchColumns(gcc, models, i + 1)
  ELSE << <<models[i].of, gcc[i]>> >> \o matchColumns(gcc, models, i + 1)

\* vw::math::find_3D_transform: the similarity solved from the columns.
find_3D_transform(columns) == [solved_from |-> columns]

\* scale*rotation*position + translation, and PinholeModel::apply_transform.
transformed(T, position) == [by |-> T, of |-> position.of]

\* The points apply_rigid_transform converts.
isConverted_all(cp) == TRUE
isConverted(cp) == cp.type # "GroundControlPoint"

\* The checks, the population of the matrices and the solve.
SolveFromPositions ==
  /\ posPc = "start"
  /\ IF Len(estimated_camera_gcc) # image_files
        \/ numMatchesFound(estimated_camera_gcc) < MIN_NUM_MATCHES
     THEN posPc' = "thrown" /\ UNCHANGED rigid_transform
     ELSE /\ rigid_transform' =
               find_3D_transform(matchColumns(estimated_camera_gcc, pinhole_models, 1))
          /\ posPc' = "cameras"
  /\ UNCHANGED <<image_files, estimated_camera_gcc, pinhole_models, world_points, icam>>
  /\ UNCHANGED notPos

\* apply_rigid_transform: pincam->apply_transform for the next camera.
TransformCamera ==
  /\ posPc = "cameras"
  /\ IF icam < Len(pinhole_models)
     THEN /\ pinhole_models' =
               [pinhole_models EXCEPT ![icam + 1] = transformed(rigid_transform, @)]
          /\ icam' = icam + 1
          /\ UNCHANGED posPc
     ELSE /\ posPc' = "points"
          /\ icam' = 0
          /\ UNCHANGED pinhole_models
  /\ UNCHANGED <<image_files, estimated_camera_gcc, world_points, rigid_transform>>
  /\ UNCHANGED notPos

\* apply_rigid_transform: the next world point of the control network.
TransformPoint ==
  /\ posPc = "points"
  /\ IF icam < Len(world_points)
     THEN /\ world_points' =
               [world_points EXCEPT ![icam + 1].position =
                  IF isConverted(world_points[icam + 1])
                  THEN transformed(rigid_transform, @) ELSE @]
          /\ icam' = icam + 1
          /\ UNCHANGED posPc
     ELSE /\ posPc' = "returned"
          /\ UNCHANGED <<world_points, icam>>
  /\ UNCHANGED <<image_files, estimated_camera_gcc, pinhole_models, rigid_transform>>
  /\ UNCHANGED notPos

PosInit ==
  /\ image_files \in 0..MaxCameras
  /\ pinhole_models = initialModels(image_files)
  /\ estimated_camera_gcc \in UNION {[1..k -> 0..1] : k \in 0..MaxCameras}
  /\ world_points \in
       {initialPoints(types) :
          types \in UNION {[1..k -> {"GroundControlPoint", "TiePoint"}] : k \in 0..2}}
  /\ rigid_transform = NoTransform
  /\ icam = 0
  /\ posPc = "start"

PosIdle ==
  /\ image_files = 0
  /\ pinhole_models = <<>>
  /\ estimated_camera_gcc = <<>>
  /\ world_points = <<>>
  /\ rigid_transform = NoTransform
  /\ icam = 0
  /\ posPc = "idle"

---------------------------------------------------------------------------
(* pack_pinhole_to_arrays, pack_optical_bar_to_arrays, transformedPinholeCamera,
   transformedOpticalBarCamera, apply_transform_to_cameras_pinhole,
   apply_transform_to_cameras_optical_bar *)

\* Numbers are doubles written as integers; the numbers that need more
\* mantissa bits than a float has are the odd ones.
static_cast_float(x) == x - (x % 2)

\* A camera: its kind, its position and pose (the pose it was loaded with
\* and the number of similarities applied to it since), its optical center,
\* its focal length (two components for a pinhole camera) and its lens
\* distortion parameters (speed, motion compensation and scan time for an
\* optical bar camera).
Camera(kind, i, focal_length, lens) ==
  [kind |-> kind, pos_pose |-> [loaded |-> i, transforms |-> 0],
   point_offset |-> <<2, 3>>, focal_length |-> focal_length, lens |-> lens]

\* PinholeModel::apply_transform / OpticalBarModel::apply_transform
apply_transform(cam) ==
  [cam EXCEPT !.pos_pose.transforms = @ + 1]

\* The records of one camera in the store, every multiplier being m.
storeRecord(pos_pose, m, k) ==
  [pos_pose |-> pos_pose, center |-> <<m, m>>, focus |-> m,
   distortion |-> [j \in 1..k |-> m]]

\* pack_pinhole_to_arrays and pack_optical_bar_to_arrays: the records of
\* camera_index after the call (an optical bar camera has 3 multipliers).
pack_to_arrays(camera, record) ==
  [record EXCEPT
     !.pos_pose = camera.pos_pose,
     !.center = <<1, 1>>,
     !.focus = 1,
     !.distortion = [j \in DOMAIN record.distortion |->
                       IF j <= (IF camera.kind = "optical_bar" THEN 3 ELSE Len(camera.lens))
                       THEN 1 ELSE record.distortion[j]]]

\* transformedPinholeCamera
transformedPinholeCamera(record, in_cam) ==
  [in_cam EXCEPT
     !.pos_pose = record.pos_pose,
     !.lens = [j \in DOMAIN in_cam.lens |-> in_cam.lens[j] * record.distortion[j]],
     !.point_offset = <<record.center[1] * in_cam.point_offset[1],
                        record.center[2] * in_cam.point_offset[2]>>,
     !.focal_length = <<in_cam.focal_length[1] * record.focus,
                        in_cam.focal_length[1] * record.focus>>]

\* transformedOpticalBarCamera (float old_focus = out_cam.get_focal_length())
transformedOpticalBarCamera(record, in_cam) ==
  [in_cam EXCEPT
     !.pos_pose = record.pos_pose,
     !.lens = [j \in DOMAIN in_cam.lens |-> in_cam.lens[j] * record.distortion[j]],
     !.point_offset = <<record.center[1] * in_cam.point_offset[1],
                        record.center[2] * in_cam.point_offset[2]>>,
     !.focal_length = <<static_cast_float(in_cam.focal_length[1]) * record.focus>>]

\* One camera is packed into its records of the store.
PackCamera ==
  /\ storePc.op # "idle"
  /\ \E camera_index \in DOMAIN cam_ptrs :
       /\ param_storage' =
            [param_storage EXCEPT ![camera_index] =
               pack_to_arrays(cam_ptrs[camera_index], @)]
       /\ storePc' = [op |-> "packed", camera_index |-> camera_index]
  /\ UNCHANGED <<cam_ptrs, out_cam>>
  /\ UNCHANGED notStore

\* A camera is rebuilt from the store.
RebuildCamera ==
  /\ storePc.op # "idle"
  /\ \E camera_index \in DOMAIN cam_ptrs :
       /\ out_cam' =
            IF cam_ptrs[camera_index].kind = "optical_bar"
            THEN transformedOpticalBarCamera(param_storage[camera_index],
                                             cam_ptrs[camera_index])
            ELSE transformedPinholeCamera(param_storage[camera_index],
                                          cam_ptrs[camera_index])
       /\ storePc' = [op |-> IF storePc = [op |-> "packed", camera_index |-> camera_index]
                             THEN "rebuilt after pack" ELSE "rebuilt",
                      camera_index |-> camera_index]
  /\ UNCHANGED <<cam_ptrs, param_storage>>
  /\ UNCHANGED notStore

\* apply_transform_to_cameras_pinhole and apply_transform_to_cameras_optical_bar:
\* each camera is transformed and packed again.
ApplyTransformToCameras ==
  /\ storePc.op # "idle"
  /\ \A i \in DOMAIN cam_ptrs : cam_ptrs[i].pos_pose.transforms < MaxTransforms
  /\ cam_ptrs' = [i \in DOMAIN cam_ptrs |-> apply_transform(cam_ptrs[i])]
  /\ param_storage' =
       [i \in DOMAIN param_storage |->
          pack_to_arrays(apply_transform(cam_ptrs[i]), param_storage[i])]
  /\ storePc' = [op |-> "transformed", camera_index |-> 0]
  /\ UNCHANGED out_cam
  /\ UNCHANGED notStore

NoCamera == Camera("none", 0, <<0>>, <<>>)

\* Two cameras of one kind, and a store whose multipliers hold any values.
StoreInit ==
  /\ \E kind \in {"pinhole", "optical_bar"}, f \in 4..5, g \in 4..5, k \in 0..MaxLens :
       cam_ptrs = [i \in 1..2 |->
                     IF kind = "pinhole"
                     THEN Camera(kind, i, <<f, g>>, [j \in 1..k |-> 3])
                     ELSE Camera(kind, i, <<f>>, <<3, 3, 3>>)]
  /\ \E m \in 1..2 :
       param_storage = [i \in 1..2 |->
                          storeRecord([loaded |-> 0, transforms |-> 0], m,
                                      Len(cam_ptrs[i].lens))]
  /\ out_cam = NoCamera
  /\ storePc = [op |-> "start", camera_index |-> 0]

StoreIdle ==
  /\ cam_ptrs = <<>>
  /\ param_storage = <<>>
  /\ out_cam = NoCamera
  /\ storePc = [op |-> "idle", camera_index |-> 0]

---------------------------------------------------------------------------
(* init_cams with the csm session, init_cams_csm *)

\* std::abs(scale - 1.0) > 1e-6, the scale being given as (scale - 1) / 1e-7
scaleUnsupported_never(scale_minus_1) == FALSE
scaleUnsupported(scale_minus_1) ==
  (IF scale_minus_1 >= 0 THEN scale_minus_1 ELSE -scale_minus_1) > 10

\* What has been applied to a camera or to a camera record.
Applied(adjustment, transform) == [adjustment |-> adjustment, transform |-> transform]

\* init_cams: init_cams_as_zero, then the adjustments of a previous run are
\* put in the parameter store.
InitCamsPrepare ==
  /\ csmPc = "start"
  /\ init_path = "init_cams"
  /\ csm_param_storage' =
       [c \in DOMAIN csm_param_storage |-> Applied(input_prefix # "", FALSE)]
  /\ csmPc' = "prepared"
  /\ UNCHANGED <<init_path, input_prefix, initial_transform_file, initial_scale,
                 csm_camera_models>>
  /\ UNCHANGED notCsmInit

\* init_cams: the scale check of the csm session, then
\* apply_transform_to_params. Cameras do not change.
InitCamsTransform ==
  /\ csmPc = "prepared"
  /\ init_path = "init_cams"
  /\ IF initial_transform_file = ""
     THEN csmPc' = "transformed" /\ UNCHANGED csm_param_storage
     ELSE IF scaleUnsupported(initial_scale)
     THEN csmPc' = "thrown" /\ UNCHANGED csm_param_storage
     ELSE /\ csm_param_storage' =
               [c \in DOMAIN csm_param_storage |->
                  [csm_param_storage[c] EXCEPT !.transform = TRUE]]
          /\ csmPc' = "transformed"
  /\ UNCHANGED <<init_path, input_prefix, initial_transform_file, initial_scale,
                 csm_camera_models>>
  /\ UNCHANGED notCsmInit

\* init_cams_csm: the adjustments of a previous run are applied inline to
\* each camera; only intrinsics are packed to the store.
InitCamsCsmPrepare ==
  /\ csmPc = "start"
  /\ init_path = "init_cams_csm"
  /\ csm_camera_models' =
       [c \in DOMAIN csm_camera_models |-> Applied(input_prefix # "", FALSE)]
  /\ csmPc' = "prepared"
  /\ UNCHANGED <<init_path, input_prefix, initial_transform_file, initial_scale,
                 csm_param_storage>>
  /\ UNCHANGED notCsmInit

\* apply_transform_to_cameras_csm: a transform with a scale is rejected,
\* another one is applied inline to every camera.
apply_transform_to_cameras_csm(scale_minus_1, models) ==
  IF scaleUnsupported(scale_minus_1)
  THEN [thrown |-> TRUE, models |-> models]
  ELSE [thrown |-> FALSE,
        models |-> [c \in DOMAIN models |-> [models[c] EXCEPT !.transform = TRUE]]]

\* init_cams_csm: any initial transform is applied to the cameras inline.
InitCamsCsmTransform ==
  /\ csmPc = "prepared"
  /\ init_path = "init_cams_csm"
  /\ IF initial_transform_file = ""
     THEN csmPc' = "transformed" /\ UNCHANGED csm_camera_models
     ELSE LET res == apply_transform_to_cameras_csm(initial_scale, csm_camera_models)
          IN /\ csm_camera_models' = res.models
             /\ csmPc' = IF res.thrown THEN "thrown" ELSE "transformed"
  /\ UNCHANGED <<init_path, input_prefix, initial_transform_file, initial_scale,
                 csm_param_storage>>
  /\ UNCHANGED notCsmInit

\* create_corrected_cameras / transformedCsmCamera fill new_cam_models.
InitCamsReturn ==
  /\ csmPc = "transformed"
  /\ csmPc' = "returned"
  /\ UNCHANGED <<init_path, input_prefix, initial_transform_file, initial_scale,
                 csm_camera_models, csm_param_storage>>
  /\ UNCHANGED notCsmInit

CsmInitInit ==
  /\ init_path \in {"init_cams", "init_cams_csm"}
  /\ input_prefix \in {"", "run/prev"}
  /\ initial_transform_file \in {"", "transform.txt"}
  /\ initial_scale \in {-MaxScale, -11, -10, -1, 0, 1, 10, 11, MaxScale}
  /\ \E n \in 0..MaxCsmCameras :
       /\ csm_camera_models = [c \in 1..n |-> Applied(FALSE, FALSE)]
       /\ csm_param_storage = [c \in 1..n |-> Applied(FALSE, FALSE)]
  /\ csmPc = "start"

CsmInitIdle ==
  /\ init_path = "none"
  /\ input_prefix = ""
  /\ initial_transform_file = ""
  /\ initial_scale = 0
  /\ csm_camera_models = <<>>
  /\ csm_param_storage = <<>>
  /\ csmPc = "idle"

---------------------------------------------------------------------------
(* StereoTXAndErrorView: operator() and PreRasterHelper *)

Tiles == 1..NumTiles

\* The tile of number tl covers the one pixel (tl - 1, 0).
tileBBox(tl) == [minx |-> tl - 1, miny |-> 0, width |-> 1, height |-> 1]
tilePixel(tl) == [nan |-> FALSE, x |-> tl - 1, y |-> 0]

NaNPixel == [nan |-> TRUE, x |-> 0, y |-> 0]

\* A disparity pixel is a masked pair of offsets.
is_valid_always(disp) == TRUE
is_valid(disp) == disp.valid

\* TXT::reverse of a transform object; the cache does not change the value.
reverse(tx, pix) == [nan |-> FALSE, x |-> pix.x - tx.shift, y |-> pix.y - 2 * tx.shift]

\* Vector2(i,j) + stereo::DispHelper(disp)
plusDisp(pix, disp) == [nan |-> FALSE, x |-> pix.x + disp.dx, y |-> pix.y + disp.dy]

\* StereoModelT::operator()(pixVec, errorVec), kept uninterpreted.
stereo_model(pixels) ==
  [xyz |-> <<[coord |-> "x", of |-> pixels], [coord |-> "y", of |-> pixels],
             [coord |-> "z", of |-> pixels]>>,
   errorVec |-> <<[coord |-> "ex", of |-> pixels], [coord |-> "ey", of |-> pixels],
                  [coord |-> "ez", of |-> pixels]>>]

\* The loop of operator(): pixVec has num_disp + 1 entries.
dewarp(maps, txs, pix) ==
  [e \in 1..(Len(maps) + 1) |->
     IF e = 1 THEN reverse(txs[1], pix)
     ELSE LET disp == maps[e - 1][pix.x]
          IN IF is_valid(disp) THEN reverse(txs[e], plusDisp(pix, disp))
             ELSE NaNPixel]

\* vector<T> transforms_copy = transforms: the elements are copied by value,
\* the copies are new objects owned by the tile.
copyTransforms_shared(txs, tl) == txs
copyTransforms(txs, tl) == [e \in DOMAIN txs |-> [owner |-> tl, index |-> e]]

\* The objects after the copy: a new object starts as a copy of its source.
afterCopy(objs, txs, copies) ==
  LET new == {copies[e] : e \in DOMAIN copies} \ DOMAIN objs
  IN [o \in DOMAIN objs \cup new |->
        IF o \in DOMAIN objs THEN objs[o]
        ELSE objs[txs[CHOOSE e \in DOMAIN copies : copies[e] = o]]]

\* crop(m_disparity_maps[p], bbox), enlarged again by a CropView: the
\* values inside the box are the values of the map.
cropview(map, bbox) ==
  [px \in {q \in DOMAIN map : q >= bbox.minx /\ q < bbox.minx + bbox.width} |-> map[px]]

\* bbox + disparity_range.min(), grown by the size of the range;
\* stereo::get_disparity_range is kept uninterpreted.
rightBBox(bbox, clip) == [of |-> bbox, disparity_range |-> clip]

viewUnchangedBy == <<m_disparity_maps, m_transforms, m_is_map_projected>>

\* PreRasterHelper, not map projected: the clips and the view's transforms.
PreRasterPlain(tl) ==
  /\ tilePc[tl] = "start"
  /\ ~m_is_map_projected
  /\ tileView' = [tileView EXCEPT ![tl] =
       [disparity_maps |-> [e \in DOMAIN m_disparity_maps |->
                              cropview(m_disparity_maps[e], tileBBox(tl))],
        transforms |-> m_transforms]]
  /\ tilePc' = [tilePc EXCEPT ![tl] = "raster"]
  /\ UNCHANGED <<viewUnchangedBy, transform_objs, cache_writes, transforms_copy,
                 tileP, pixVec, viewResult>>
  /\ UNCHANGED notView

\* PreRasterHelper, map projected: the copy of the transforms.
CopyTransforms(tl) ==
  /\ tilePc[tl] = "start"
  /\ m_is_map_projected
  /\ LET copies == copyTransforms(m_transforms, tl)
     IN /\ transforms_copy' = [transforms_copy EXCEPT ![tl] = copies]
        /\ transform_objs' = afterCopy(transform_objs, m_transforms, copies)
  /\ tilePc' = [tilePc EXCEPT ![tl] = "copied"]
  /\ UNCHANGED <<viewUnchangedBy, cache_writes, tileP, tileView, pixVec, viewResult>>
  /\ UNCHANGED notView

\* transforms_copy[0].reverse_bbox(bbox), then the check of the sizes.
PrimeLeft(tl) ==
  /\ tilePc[tl] = "copied"
  /\ LET o == transforms_copy[tl][1]
     IN /\ transform_objs' = [transform_objs EXCEPT ![o].cache = tileBBox(tl)]
        /\ cache_writes' = cache_writes \cup {<<o, tl>>}
  /\ tilePc' = [tilePc EXCEPT ![tl] =
       IF Len(transforms_copy[tl]) # Len(m_disparity_maps) + 1 THEN "thrown" ELSE "loop"]
  /\ UNCHANGED <<viewUnchangedBy, transforms_copy, tileP, tileView, pixVec, viewResult>>
  /\ UNCHANGED notView

\* One pass of the loop over the disparities: the clip, the box in the
\* right image, transforms_copy[p+1].reverse_bbox(right_bbox).
PrimeRight(tl) ==
  /\ tilePc[tl] = "loop"
  /\ tileP[tl] < Len(m_disparity_maps)
  /\ LET o == transforms_copy[tl][tileP[tl] + 2]
         clip == cropview(m_disparity_maps[tileP[tl] + 1], tileBBox(tl))
     IN /\ transform_objs' =
             [transform_objs EXCEPT ![o].cache = rightBBox(tileBBox(tl), clip)]
        /\ cache_writes' = cache_writes \cup {<<o, tl>>}
  /\ tileP' = [tileP EXCEPT ![tl] = @ + 1]
  /\ UNCHANGED <<viewUnchangedBy, tilePc, transforms_copy, tileView, pixVec, viewResult>>
  /\ UNCHANGED notView

\* The end of the loop: the view of the tile holds the clips and the copies.
ReturnView(tl) ==
  /\ tilePc[tl] = "loop"
  /\ tileP[tl] >= Len(m_disparity_maps)
  /\ tileView' = [tileView EXCEPT ![tl] =
       [disparity_maps |-> [e \in DOMAIN m_disparity_maps |->
                              cropview(m_disparity_maps[e], tileBBox(tl))],
        transforms |-> transforms_copy[tl]]]
  /\ tilePc' = [tilePc EXCEPT ![tl] = "raster"]
  /\ UNCHANGED <<viewUnchangedBy, transform_objs, cache_writes, transforms_copy,
                 tileP, pixVec, viewResult>>
  /\ UNCHANGED notView

\* vw::rasterize evaluates operator() of the tile's view at the pixels of
\* the tile.
Rasterize(tl) ==
  /\ tilePc[tl] = "raster"
  /\ LET txs == [e \in DOMAIN tileView[tl].transforms |->
                   transform_objs[tileView[tl].transforms[e]]]
         pixels == dewarp(tileView[tl].disparity_maps, txs, tilePixel(tl))
         model == stereo_model(pixels)
     IN /\ pixVec' = [pixVec EXCEPT ![tl] = pixels]
        /\ viewResult' = [viewResult EXCEPT ![tl] = model.xyz \o model.errorVec]
  /\ tilePc' = [tilePc EXCEPT ![tl] = "done"]
  /\ UNCHANGED <<viewUnchangedBy, transform_objs, cache_writes, transforms_copy,
                 tileP, tileView>>
  /\ UNCHANGED notView

\* A transform as constructed by the session: no cache yet.
NoCache == [minx |-> 0, miny |-> 0, width |-> 0, height |-> 0]

\* The disparity map of the right image e with a pattern of masked pixels.
MaskPatterns == {"none", "all", "even"}
disparityMap(e, pattern) ==
  [px \in 0..(NumTiles - 1) |->
     [valid |-> (pattern = "none" \/ (pattern = "even" /\ px % 2 = 1)),
      dx |-> e, dy |-> 0]]

NoView == [disparity_maps |-> <<>>, transforms |-> <<>>]

ViewInit ==
  /\ \E n \in 1..MaxDisparities :
       /\ m_disparity_maps \in
            {[e \in 1..n |-> disparityMap(e, pat[e])] : pat \in [1..n -> MaskPatterns]}
       /\ \E nt \in {n + 1, n + 2} :
            /\ m_transforms = [e \in 1..nt |-> [owner |-> 0, index |-> e]]
            /\ transform_objs =
                 [o \in {[owner |-> 0, index |-> e] : e \in 1..nt} |->
                    [shift |-> o.index, cache |-> NoCache]]
  /\ m_is_map_projected \in BOOLEAN
  /\ cache_writes = {}
  /\ tilePc = [tl \in Tiles |-> "start"]
  /\ transforms_copy = [tl \in Tiles |-> <<>>]
  /\ tileP = [tl \in Tiles |-> 0]
  /\ tileView = [tl \in Tiles |-> NoView]
  /\ pixVec = [tl \in Tiles |-> <<>>]
  /\ viewResult = [tl \in Tiles |-> <<>>]

ViewIdle ==
  /\ m_disparity_maps = <<>>
  /\ m_transforms = <<>>
  /\ m_is_map_projected = FALSE
  /\ transform_objs = <<>>
  /\ cache_writes = {}
  /\ tilePc = <<>>
  /\ transforms_copy = <<>>
  /\ tileP = <<>>
  /\ tileView = <<>>
  /\ pixVec = <<>>
  /\ viewResult = <<>>

---------------------------------------------------------------------------
(* stereo_triangulation: the universe radius filter *)

\* stereo::UniverseRadiusFunc(center, near, far)
UniverseRadiusFunc(center, near, far) == [center |-> center, near |-> near, far |-> far]

\* UniverseRadiusFunc(Vector3(), 0, 0): the filter that filters nothing.
NoRadiusFilter == UniverseRadiusFunc("zero", 0, 0)

\* The try block: the value of universe_radius_func, or a throw.
universeTry ==
  IF universe_center = "camera"
  THEN IF session_name = "rpc" \/ camera_center_throws
       THEN [thrown |-> TRUE, func |-> universe_radius_func]
       ELSE [thrown |-> FALSE,
             func |-> UniverseRadiusFunc("camera", near_universe_radius, far_universe_radius)]
  ELSE IF universe_center = "zero"
  THEN [thrown |-> FALSE,
        func |-> UniverseRadiusFunc("zero", near_universe_radius, far_universe_radius)]
  ELSE [thrown |-> FALSE, func |-> universe_radius_func]

\* The try/catch that sets universe_radius_func: the handler catches every
\* std::exception, the throw for rpc cameras included, prints a warning and
\* lets the function go on.
SetUniverseRadius ==
  /\ uniPc = "start"
  /\ LET res == universeTry
     IN /\ universe_radius_func' = res.func
        /\ universe_warned' = res.thrown
        /\ uniPc' = "configured"
  /\ UNCHANGED <<universe_center, session_name, camera_center_throws,
                 near_universe_radius, far_universe_radius>>
  /\ UNCHANGED notUniverse

\* per_pixel_filter(stereo_error_triangulate(...), universe_radius_func):
\* the point cloud is produced with the filter as it is now.
GenerateCloud ==
  /\ uniPc = "configured"
  /\ uniPc' = "cloud"
  /\ UNCHANGED <<universe_center, session_name, camera_center_throws,
                 near_universe_radius, far_universe_radius, universe_radius_func,
                 universe_warned>>
  /\ UNCHANGED notUniverse

UniverseInit ==
  /\ universe_center \in {"camera", "zero", "none"}
  /\ session_name \in {"rpc", "dg", "pinhole", "isis"}
  /\ camera_center_throws \in BOOLEAN
  /\ near_universe_radius \in 0..MaxRadius
  /\ far_universe_radius \in 0..MaxRadius
  /\ universe_radius_func = NoRadiusFilter
  /\ universe_warned = FALSE
  /\ uniPc = "start"

UniverseIdle ==
  /\ universe_center = "none"
  /\ session_name = "none"
  /\ camera_center_throws = FALSE
  /\ near_universe_radius = 0
  /\ far_universe_radius = 0
  /\ universe_radius_func = NoRadiusFilter
  /\ universe_warned = FALSE
  /\ uniPc = "idle"

---------------------------------------------------------------------------
(* find_point_cloud_center *)

\* The number of points above which the search stops.
enoughPoints == 100

\* (int)ceil(a / double(b))
ceilDiv(a, b) == (a + b - 1) \div b

numx == ceilDiv(cloud_cols, tile_size[1])
numy == ceilDiv(cloud_rows, tile_size[2])
lastRing == Max(numx \div 2, numy \div 2)

\* BBox2i box(x*tile_size[0], y*tile_size[1], tile_size[0], tile_size[1]),
\* cropped to the bounding box of the cloud.
\* BBox2i::crop: the intersection of two boxes.
cropBox(box, win) ==
  LET minx == Max(box.minx, win.minx)
      miny == Max(box.miny, win.miny)
  IN [minx |-> minx, miny |-> miny,
      width |-> Min(box.minx + box.width, win.minx + win.width) - minx,
      height |-> Min(box.miny + box.height, win.miny + win.height) - miny]

boxArea(box) == IF box.width > 0 /\ box.height > 0 THEN box.width * box.height ELSE 0

\* bounding_box(point_cloud)
cloudBox == [minx |-> 0, miny |-> 0, width |-> cloud_cols, height |-> cloud_rows]

tileBox(x, y) ==
  cropBox(cropBox([minx |-> x * tile_size[1], miny |-> y * tile_size[2],
                   width |-> tile_size[1], height |-> tile_size[2]], cloudBox),
          trans_crop_win)

\* The valid (non-zero) points of the cloud cropped to the tile: all of them
\* have the same xyz, which tells the tile.
croppedPoints(x, y) ==
  LET box == tileBox(x, y)
      wanted == IF x = numx \div 2 /\ y = numy \div 2 THEN cloud_valid[1] ELSE cloud_valid[2]
  IN [n |-> Min(wanted, boxArea(box)), xyz |-> <<x + 1, y + 1, x + y + 1>>]

RECURSIVE numPoints(_)
numPoints(runs) ==
  IF runs = <<>> THEN 0 ELSE runs[1].n + numPoints(Tail(runs))

\* V[points.size()/2] of the sorted coordinate i of the points.
medianCoord(runs, i) ==
  LET size == numPoints(runs)
      vals == {runs[k].xyz[i] : k \in {j \in DOMAIN runs : runs[j].n > 0}}
      below(v) == numPoints(SelectSeq(runs, LAMBDA run : run.xyz[i] < v))
      upto(v) == numPoints(SelectSeq(runs, LAMBDA run : run.xyz[i] <= v))
  IN CHOOSE v \in vals : below(v) <= size \div 2 /\ size \div 2 < upto(v)

\* median[i]*1e-10*rand()/double(RAND_MAX), in units of 1e-10/RAND_MAX: the
\* amount is zero when the median is zero and when rand() returns zero.
perturbation(median, rnd) == median * rnd

\* find_approx_points_median: the median of each coordinate, and the amount
\* added to it; rand() is called once for each coordinate.
find_approx_points_median(runs, rnd) ==
  IF numPoints(runs) = 0 THEN [median |-> <<0, 0, 0>>, nudge |-> <<0, 0, 0>>]
  ELSE [median |-> [i \in 1..3 |-> medianCoord(runs, i)],
        nudge |-> [i \in 1..3 |-> perturbation(medianCoord(runs, i), rnd[i])]]

\* if (points.size() > 100)
enough_never(count) == FALSE
enough(count) == count > enoughPoints

\* y++, then x++, then r++ of the three nested loops.
nextIndices ==
  IF ring_y + 1 <= numy \div 2 + ring_r
  THEN <<ring_r, ring_x, ring_y + 1>>
  ELSE IF ring_x + 1 <= numx \div 2 + ring_r
  THEN <<ring_r, ring_x + 1, numy \div 2 - ring_r>>
  ELSE <<ring_r + 1, numx \div 2 - (ring_r + 1), numy \div 2 - (ring_r + 1)>>

advance ==
  /\ ring_r' = nextIndices[1]
  /\ ring_x' = nextIndices[2]
  /\ ring_y' = nextIndices[3]
  /\ centerPc' = IF nextIndices[1] > lastRing THEN "exhausted" ELSE "loop"

innerPoint_never == FALSE
innerPoint ==
  /\ ring_x # numx \div 2 - ring_r /\ ring_x # numx \div 2 + ring_r
  /\ ring_y # numy \div 2 - ring_r /\ ring_y # numy \div 2 + ring_r

outOfBounds == ring_x < 0 \/ ring_y < 0 \/ ring_x >= numx \/ ring_y >= numy

centerInputs == <<cloud_cols, cloud_rows, tile_size, cloud_valid, trans_crop_win>>

\* continue; // skip inner points
SkipInner ==
  /\ centerPc = "loop"
  /\ innerPoint
  /\ advance
  /\ UNCHANGED <<centerInputs, points, visited, cloud_center, rand_value>>
  /\ UNCHANGED notCenter

\* continue; // out of bounds
SkipOutOfBounds ==
  /\ centerPc = "loop"
  /\ ~innerPoint
  /\ outOfBounds
  /\ advance
  /\ UNCHANGED <<centerInputs, points, visited, cloud_center, rand_value>>
  /\ UNCHANGED notCenter

\* The tile is triangulated, its valid points are added, and the search
\* stops when there are enough of them.
VisitTile ==
  /\ centerPc = "loop"
  /\ ~innerPoint
  /\ ~outOfBounds
  /\ LET more == Append(points, croppedPoints(ring_x, ring_y))
     IN /\ points' = more
        /\ visited' = Append(visited, <<ring_x, ring_y>>)
        /\ IF enough(numPoints(more))
           THEN /\ \E rnd \in [1..3 -> 0..MaxRand] :
                     /\ rand_value' = rnd
                     /\ cloud_center' = find_approx_points_median(more, rnd)
                /\ centerPc' = "returned"
                /\ UNCHANGED <<ring_r, ring_x, ring_y>>
           ELSE /\ advance
                /\ UNCHANGED <<cloud_center, rand_value>>
  /\ UNCHANGED centerInputs
  /\ UNCHANGED notCenter

\* Have to use what we've got
ReturnCenter ==
  /\ centerPc = "exhausted"
  /\ \E rnd \in [1..3 -> 0..MaxRand] :
       /\ rand_value' = rnd
       /\ cloud_center' = find_approx_points_median(points, rnd)
  /\ centerPc' = "returned"
  /\ UNCHANGED <<centerInputs, ring_r, ring_x, ring_y, points, visited>>
  /\ UNCHANGED notCenter

NoCenter == [median |-> <<0, 0, 0>>, nudge |-> <<0, 0, 0>>]

CenterInit ==
  /\ tile_size = <<TileSize, TileSize>>
  /\ cloud_cols \in {1, TileSize, TileSize + 1, 2 * TileSize + 1, MaxCols}
  /\ cloud_rows \in {1, TileSize, 2 * TileSize + 1, MaxRows}
  /\ cloud_valid \in {enoughPoints - 1, enoughPoints, enoughPoints + 1, 0} \X {0, 1, 60}
  /\ trans_crop_win \in {cloudBox, [minx |-> 1, miny |-> 1, width |-> cloud_cols - 1,
                                      height |-> cloud_rows - 1]}
  /\ rand_value = <<0, 0, 0>>
  /\ ring_r = 0
  /\ ring_x = numx \div 2
  /\ ring_y = numy \div 2
  /\ points = <<>>
  /\ visited = <<>>
  /\ cloud_center = NoCenter
  /\ centerPc = "loop"

CenterIdle ==
  /\ tile_size = <<1, 1>>
  /\ cloud_cols = 0
  /\ cloud_rows = 0
  /\ cloud_valid = <<0, 0>>
  /\ trans_crop_win = [minx |-> 0, miny |-> 0, width |-> 0, height |-> 0]
  /\ rand_value = <<0, 0, 0>>
  /\ ring_r = 0
  /\ ring_x = 0
  /\ ring_y = 0
  /\ points = <<>>
  /\ visited = <<>>
  /\ cloud_center = NoCenter
  /\ centerPc = "idle"

---------------------------------------------------------------------------
(* weightedRollYawError::operator() *)

\* round(angle / 180.0): to the nearest integer, halves away from zero.
roundBy180(angle) ==
  IF angle >= 0 THEN (2 * angle + 180) \div 360
  ELSE -((180 - 2 * angle) \div 360)

\* angle - 180.0 * round(angle / 180.0)
normalizeAngle_none(angle) == angle
normalizeAngle(angle) == angle - 180 * roundBy180(angle)

\* The angle that goes to residuals[0]: the roll, and in the mode of the
\* initial camera the pitch (roll and pitch are swapped there).
firstAngle_roll(rpy, initial_camera) == rpy.roll
firstAngle(rpy, initial_camera) == IF initial_camera THEN rpy.pitch ELSE rpy.roll

\* operator(): the angles are normalized and weighted.
weightedRollYawError ==
  /\ ryPc = "start"
  /\ ryResiduals' =
       << normalizeAngle(firstAngle(rollPitchYaw, m_initial_camera_constraint))
            * m_rollWeight,
          normalizeAngle(rollPitchYaw.yaw) * m_yawWeight >>
  /\ ryPc' = "returned"
  /\ UNCHANGED <<m_initial_camera_constraint, m_rollWeight, m_yawWeight, rollPitchYaw>>
  /\ UNCHANGED notRollYaw

\* The angles a decomposition can return, in degrees.
Angles == {-MaxAngle, 1 - MaxAngle, -91, -90, -89, 0, 89, 90, 91, MaxAngle - 1, MaxAngle}

RollYawInit ==
  /\ m_initial_camera_constraint \in BOOLEAN
  /\ m_rollWeight \in 0..MaxWeight
  /\ m_yawWeight \in 0..MaxWeight
  /\ rollPitchYaw \in [roll : Angles, pitch : {-90, 0, 45}, yaw : Angles]
  /\ ryResiduals = <<0, 0>>
  /\ ryPc = "start"

RollYawIdle ==
  /\ m_initial_camera_constraint = FALSE
  /\ m_rollWeight = 0
  /\ m_yawWeight = 0
  /\ rollPitchYaw = [roll |-> 0, pitch |-> 0, yaw |-> 0]
  /\ ryResiduals = <<0, 0>>
  /\ ryPc = "idle"

---------------------------------------------------------------------------
(* check_gcp_dists: the warning about GCPs far from the other points.
   Positions have one coordinate, in meters, 0 standing for Vector3(); they
   are multiples of 60 km, so that every division by a count is exact.  The
   triangulation is external: its result for a point ("ans" and the new
   position) is a field of the point. *)

\* cnet[ipt].position() == Vector3() || cnet[ipt].size() <= 1
skipped(cp) == cp.position = 0 \/ cp.size <= 1

\* ans < 0 || cp_new.position() == Vector3()
failsToTriangulate(cp) == cp.ans < 0 \/ cp.tri_position = 0

\* One iteration of the first loop: only counts.
CountPoint ==
  /\ distPc = "count"
  /\ dist_ipt < Len(dist_cnet)
  /\ LET cp == dist_cnet[dist_ipt + 1] IN
       IF skipped(cp)
       THEN UNCHANGED <<gcp_count, ip_count>>
       ELSE IF cp.type = "GroundControlPoint"
       THEN gcp_count' = gcp_count + 1 /\ UNCHANGED ip_count
       ELSE IF failsToTriangulate(cp)
       THEN UNCHANGED <<gcp_count, ip_count>>
       ELSE ip_count' = ip_count + 1 /\ UNCHANGED gcp_count
  /\ dist_ipt' = dist_ipt + 1
  /\ UNCHANGED <<dist_cnet, dist_cnet0, mean_gcp, mean_ip, dist_warned, distPc>>
  /\ UNCHANGED notGcpDists

\* After the first loop: return when a kind of points is missing.
CountsDone ==
  /\ distPc = "count"
  /\ dist_ipt = Len(dist_cnet)
  /\ distPc' = IF ip_count = 0 \/ gcp_count = 0 THEN "returned" ELSE "mean"
  /\ dist_ipt' = 0
  /\ UNCHANGED <<dist_cnet, dist_cnet0, gcp_count, ip_count, mean_gcp, mean_ip, dist_warned>>
  /\ UNCHANGED notGcpDists

\* mean_gcp += position / gcp_count; ++gcp_count;
addToMeanGcp(cp) ==
  /\ mean_gcp' = mean_gcp + cp.position \div gcp_count
  /\ gcp_count' = gcp_count + 1

\* One iteration of the second loop.
MeanPoint ==
  /\ distPc = "mean"
  /\ dist_ipt < Len(dist_cnet)
  /\ LET cp == dist_cnet[dist_ipt + 1] IN
       IF skipped(cp)
       THEN UNCHANGED <<gcp_count, mean_gcp, mean_ip>>
       ELSE IF cp.type = "GroundControlPoint"
       THEN addToMeanGcp(cp) /\ UNCHANGED mean_ip
       ELSE IF failsToTriangulate(cp)
       THEN UNCHANGED <<gcp_count, mean_gcp, mean_ip>>
       ELSE /\ mean_ip' = mean_ip + cp.tri_position \div ip_count
            /\ UNCHANGED <<gcp_count, mean_gcp>>
  /\ dist_ipt' = dist_ipt + 1
  /\ UNCHANGED <<dist_cnet, dist_cnet0, ip_count, dist_warned, distPc>>
  /\ UNCHANGED notGcpDists

\* dist = norm_2(mean_ip - mean_gcp); if (dist > 100000) warn.
norm_2(v) == IF v >= 0 THEN v ELSE -v

CompareMeans ==
  /\ distPc = "mean"
  /\ dist_ipt = Len(dist_cnet)
  /\ dist_warned' = (norm_2(mean_ip - mean_gcp) > 100000)
  /\ distPc' = "returned"
  /\ UNCHANGED <<dist_cnet, dist_cnet0, dist_ipt, gcp_count, ip_count, mean_gcp, mean_ip>>
  /\ UNCHANGED notGcpDists

\* The points of a control network.
DistPoints ==
  [type : {"GroundControlPoint"}, position : {0, 60000, 300000}, size : {2},
   ans : {0}, tri_position : {0}]
  \cup {[type |-> "GroundControlPoint", position |-> 300000, size |-> 1,
         ans |-> 0, tri_position |-> 0]}
  \cup [type : {"TiePoint"}, position : {60000}, size : {2},
        ans : {0}, tri_position : {0, 60000, 180000}]
  \cup {[type |-> "TiePoint", position |-> 60000, size |-> 2,
         ans |-> -1, tri_position |-> 180000],
        [type |-> "TiePoint", position |-> 0, size |-> 2,
         ans |-> 0, tri_position |-> 180000]}

GcpDistsInit ==
  /\ dist_cnet \in UNION {[1..k -> DistPoints] : k \in 0..MaxDistPoints}
  /\ dist_cnet0 = dist_cnet
  /\ dist_ipt = 0
  /\ gcp_count = 0
  /\ ip_count = 0
  /\ mean_gcp = 0
  /\ mean_ip = 0
  /\ dist_warned = FALSE
  /\ distPc = "count"

GcpDistsIdle ==
  /\ dist_cnet = <<>>
  /\ dist_cnet0 = <<>>
  /\ dist_ipt = 0
  /\ gcp_count = 0
  /\ ip_count = 0
  /\ mean_gcp = 0
  /\ mean_ip = 0
  /\ dist_warned = FALSE
  /\ distPc = "idle"

---------------------------------------------------------------------------
(* compute_matches_from_disp: interest point matches from a disparity *)

\* round(sqrt(a / b)) for a >= 0, b > 0: halves are rounded away from zero.
roundSqrt(a, b) ==
  CHOOSE n \in 0..(a + 1) :
    /\ (n = 0 \/ (2 * n - 1) * (2 * n - 1) * b <= 4 * a)
    /\ 4 * a < (2 * n + 1) * (2 * n + 1) * b

num_pixels == disp_cols * disp_rows

\* std::min(double(max_num_matches), num_pixels)
numBins == Min(max_num_matches, num_pixels)

\* Plain mode: bin_len = sqrt(num_pixels / numBins) is a double, and
\* len = max(1, round(size / bin_len)).
plainLen(size) == Max(1, roundSqrt(size * size * numBins, num_pixels))

\* round((bin + 0.5) * bin_len)
plainPos(bin) == roundSqrt((2 * bin + 1) * (2 * bin + 1) * num_pixels, 4 * numBins)

\* Triplet mode: int bin_len = round(sqrt(num_pixels / numBins)), and
\* len = max(1, round(size / bin_len)) with an integer division.
bin_len == roundSqrt(num_pixels, numBins)
tripletLen(size) == Max(1, size \div bin_len)

\* disp(x, y)
dispAt(x, y) ==
  [valid |-> (disp_pattern = "none" \/ (disp_pattern = "even" /\ (x + y) % 2 = 1)),
   dx |-> disp_dx, dy |-> 0]

insideDisp(x, y) == x >= 0 /\ x < disp_cols /\ y >= 0 /\ y < disp_rows

\* TXT::forward of a transform object, the inverse of reverse.
forward(tx, pix) == [nan |-> FALSE, x |-> pix.x + tx.shift, y |-> pix.y + 2 * tx.shift]

Pixel(x, y) == [nan |-> FALSE, x |-> x, y |-> y]

\* ip::InterestPoint(pix.x(), pix.y())
InterestPoint(pix) == [x |-> pix.x, y |-> pix.y]

matchInputs == <<disp_cols, disp_rows, disp_pattern, disp_dx, match_trans,
                 max_num_matches, gen_triplets>>

\* The next indices of a double loop with 0 <= inner < n.
nextInner(outer, inner, n) ==
  IF inner + 1 < n THEN <<outer, inner + 1>> ELSE <<outer + 1, 0>>

\* One bin of the plain mode.
PlainBin ==
  /\ matchPc = "plain"
  /\ binx < plainLen(disp_cols)
  /\ LET posx == plainPos(binx)
         posy == plainPos(biny)
         dpix == dispAt(posx, posy)
     IN IF posx >= disp_cols \/ posy >= disp_rows
        THEN UNCHANGED <<left_ip, right_ip>>
        ELSE IF ~is_valid(dpix)
        THEN UNCHANGED <<left_ip, right_ip>>
        ELSE /\ left_ip' = Append(left_ip,
                   InterestPoint(reverse(match_trans, Pixel(posx, posy))))
             /\ right_ip' = Append(right_ip,
                   InterestPoint(reverse(match_trans, plusDisp(Pixel(posx, posy), dpix))))
  /\ binx' = nextInner(binx, biny, plainLen(disp_rows))[1]
  /\ biny' = nextInner(binx, biny, plainLen(disp_rows))[2]
  /\ UNCHANGED <<col, row, left_done, right_done, matchPc>>
  /\ UNCHANGED matchInputs
  /\ UNCHANGED notMatches

\* it = done.find(pix.x()); it != done.end() && it->second == pix.y()
foundIn(done, pix) == pix.x \in DOMAIN done /\ done[pix.x] = pix.y

\* done[pix.x()] = pix.y()
recordIn(done, pix) ==
  [k \in (DOMAIN done) \cup {pix.x} |-> IF k = pix.x THEN pix.y ELSE done[k]]

\* Add this ip unless found already.
addUnlessFound(left_pix, right_pix) ==
  IF foundIn(left_done, left_pix) \/ foundIn(right_done, right_pix)
  THEN UNCHANGED <<left_ip, right_ip, left_done, right_done>>
  ELSE /\ left_done' = recordIn(left_done, left_pix)
       /\ right_done' = recordIn(right_done, right_pix)
       /\ left_ip' = Append(left_ip, InterestPoint(left_pix))
       /\ right_ip' = Append(right_ip, InterestPoint(right_pix))

\* One point of the first pass: left ip at multiples of the bin length.
LeftBin ==
  /\ matchPc = "left"
  /\ binx <= tripletLen(disp_cols)
  /\ LET posx == binx * bin_len
         posy == biny * bin_len
         left_pix == Pixel(posx, posy)
         trans_left_pix == forward(match_trans, left_pix)
         dpix == dispAt(trans_left_pix.x, trans_left_pix.y)
     IN IF posx >= disp_cols \/ posy >= disp_rows
        THEN UNCHANGED <<left_ip, right_ip, left_done, right_done>>
        ELSE IF ~insideDisp(trans_left_pix.x, trans_left_pix.y)
        THEN UNCHANGED <<left_ip, right_ip, left_done, right_done>>
        ELSE IF ~is_valid(dpix)
        THEN UNCHANGED <<left_ip, right_ip, left_done, right_done>>
        ELSE addUnlessFound(left_pix,
                            reverse(match_trans, plusDisp(trans_left_pix, dpix)))
  /\ binx' = nextInner(binx, biny, tripletLen(disp_rows) + 1)[1]
  /\ biny' = nextInner(binx, biny, tripletLen(disp_rows) + 1)[2]
  /\ UNCHANGED <<col, row, matchPc>>
  /\ UNCHANGED matchInputs
  /\ UNCHANGED notMatches

\* The end of the first pass.
LeftDone ==
  /\ matchPc = "left"
  /\ binx > tripletLen(disp_cols)
  /\ matchPc' = "right"
  /\ UNCHANGED <<binx, biny, col, row, left_ip, right_ip, left_done, right_done>>
  /\ UNCHANGED matchInputs
  /\ UNCHANGED notMatches

\* One pixel of the second pass: right ip at multiples of the bin length.
RightPixel ==
  /\ matchPc = "right"
  /\ col < disp_cols
  /\ LET trans_left_pix == Pixel(col, row)
         dpix == dispAt(col, row)
         left_pix == reverse(match_trans, trans_left_pix)
         right_pix == reverse(match_trans, plusDisp(trans_left_pix, dpix))
     IN IF ~is_valid(dpix)
        THEN UNCHANGED <<left_ip, right_ip, left_done, right_done>>
        ELSE IF right_pix.x % bin_len # 0 \/ right_pix.y % bin_len # 0
        THEN UNCHANGED <<left_ip, right_ip, left_done, right_done>>
        ELSE addUnlessFound(left_pix, right_pix)
  /\ col' = nextInner(col, row, disp_rows)[1]
  /\ row' = nextInner(col, row, disp_rows)[2]
  /\ UNCHANGED <<binx, biny, matchPc>>
  /\ UNCHANGED matchInputs
  /\ UNCHANGED notMatches

\* ip::write_binary_match_file(match_file, left_ip, right_ip)
WriteMatches ==
  /\ \/ matchPc = "plain" /\ binx >= plainLen(disp_cols)
     \/ matchPc = "right" /\ col >= disp_cols
  /\ matchPc' = "written"
  /\ UNCHANGED <<binx, biny, col, row, left_ip, right_ip, left_done, right_done>>
  /\ UNCHANGED matchInputs
  /\ UNCHANGED notMatches

MatchesInit ==
  /\ disp_cols \in 1..MaxDispCols
  /\ disp_rows \in 1..MaxDispRows
  /\ disp_pattern \in MaskPatterns
  /\ disp_dx \in 0..1
  /\ match_trans \in [shift : 0..1]
  /\ max_num_matches \in 1..MaxMatches
  /\ gen_triplets \in BOOLEAN
  /\ binx = 0
  /\ biny = 0
  /\ col = 0
  /\ row = 0
  /\ left_ip = <<>>
  /\ right_ip = <<>>
  /\ left_done = <<>>
  /\ right_done = <<>>
  /\ matchPc = IF gen_triplets THEN "left" ELSE "plain"

MatchesIdle ==
  /\ disp_cols = 0
  /\ disp_rows = 0
  /\ disp_pattern = "none"
  /\ disp_dx = 0
  /\ match_trans = [shift |-> 0]
  /\ max_num_matches = 0
  /\ gen_triplets = FALSE
  /\ binx = 0
  /\ biny = 0
  /\ col = 0
  /\ row = 0
  /\ left_ip = <<>>
  /\ right_ip = <<>>
  /\ left_done = <<>>
  /\ right_done = <<>>
  /\ matchPc = "idle"

---------------------------------------------------------------------------
(* Specifications *)

\* calcIndexBounds on every input within the bounds.
InitIdx == IdxInit /\ CamIdle /\ LsIdle /\ EvIdle /\ RigIdle /\ IntrIdle /\ GcpIdle /\ PosIdle /\ StoreIdle /\ CsmInitIdle /\ ViewIdle /\ UniverseIdle /\ CenterIdle /\ RollYawIdle /\ GcpDistsIdle /\ MatchesIdle
NextIdx == calcIndexBounds
SpecIdx == InitIdx /\ [][NextIdx]_vars

\* One linescan residual block: built, evaluated, samples outside its windows
\* modified, evaluated again.
InitLs == IdxIdle /\ CamInit /\ LsInit /\ EvIdle /\ RigIdle /\ IntrIdle /\ GcpIdle /\ PosIdle /\ StoreIdle /\ CsmInitIdle /\ ViewIdle /\ UniverseIdle /\ CenterIdle /\ RollYawIdle /\ GcpDistsIdle /\ MatchesIdle
NextLs == addLsReprojectionErr \/ EvaluateLs \/ ModifyQuatOutside \/ ModifyPosOutside
SpecLs == InitLs /\ [][NextLs]_vars

\* Solver threads evaluating reprojection cost functions concurrently, the
\* camera and the parameter store held fixed.
InitEval == IdxIdle /\ CamIdle /\ EvProblemInit /\ EvInit /\ RigIdle /\ IntrIdle /\ GcpIdle /\ PosIdle /\ StoreIdle /\ CsmInitIdle /\ ViewIdle /\ UniverseIdle /\ CenterIdle /\ RollYawIdle /\ GcpDistsIdle /\ MatchesIdle
NextEval ==
  \E p \in Threads :
    \/ CallOperator(p)
    \/ CopyModel(p)
    \/ OverwriteQuaternions(p)
    \/ OverwritePositions(p)
    \/ SetRigFrameParameters(p)
    \/ SetFrameParameters(p)
    \/ Project(p)
    \/ Throw(p)
SpecEval == InitEval /\ [][NextEval]_vars

\* readRigConfig reading a rig file line by line.
InitRig == IdxIdle /\ CamIdle /\ LsIdle /\ EvIdle /\ RigInit /\ IntrIdle /\ GcpIdle /\ PosIdle /\ StoreIdle /\ CsmInitIdle /\ ViewIdle /\ UniverseIdle /\ CenterIdle /\ RollYawIdle /\ GcpDistsIdle /\ MatchesIdle
NextRig ==
  \/ ReadRefSensorName
  \/ ReadSensorName
  \/ ReadPlainField
  \/ ReadDistortionCoeffs
  \/ ReadDistortionType
  \/ ReadUndistortedImageSize
  \/ ReadRefToSensorTransform
  \/ ReadDepthToImageTransform
  \/ ReadTimestampOffset
SpecRig == InitRig /\ [][NextRig]_vars

\* load_intrinsics_options called on the strings of the command line.
InitIntr == IdxIdle /\ CamIdle /\ LsIdle /\ EvIdle /\ RigIdle /\ IntrInit /\ GcpIdle /\ PosIdle /\ StoreIdle /\ CsmInitIdle /\ ViewIdle /\ UniverseIdle /\ CenterIdle /\ RollYawIdle /\ GcpDistsIdle /\ MatchesIdle
NextIntr == load_intrinsics_options
SpecIntr == InitIntr /\ [][NextIntr]_vars

\* init_pinhole_model_with_multi_gcp on every control network within the bounds.
InitGcp == IdxIdle /\ CamIdle /\ LsIdle /\ EvIdle /\ RigIdle /\ IntrIdle /\ GcpInit /\ PosIdle /\ StoreIdle /\ CsmInitIdle /\ ViewIdle /\ UniverseIdle /\ CenterIdle /\ RollYawIdle /\ GcpDistsIdle /\ MatchesIdle
NextGcp ==
  \/ CountGcp
  \/ CheckNumGood
  \/ FillGcp
  \/ SolveGcp
SpecGcp == InitGcp /\ [][NextGcp]_vars

\* init_pinhole_model_with_camera_positions on every list of candidates within the bounds.
InitPos == IdxIdle /\ CamIdle /\ LsIdle /\ EvIdle /\ RigIdle /\ IntrIdle /\ GcpIdle /\ PosInit /\ StoreIdle /\ CsmInitIdle /\ ViewIdle /\ UniverseIdle /\ CenterIdle /\ RollYawIdle /\ GcpDistsIdle /\ MatchesIdle
NextPos ==
  \/ SolveFromPositions
  \/ TransformCamera
  \/ TransformPoint
SpecPos == InitPos /\ [][NextPos]_vars

\* Cameras packed into the store, rebuilt from it and transformed through it.
InitStore == IdxIdle /\ CamIdle /\ LsIdle /\ EvIdle /\ RigIdle /\ IntrIdle /\ GcpIdle /\ PosIdle /\ StoreInit /\ CsmInitIdle /\ ViewIdle /\ UniverseIdle /\ CenterIdle /\ RollYawIdle /\ GcpDistsIdle /\ MatchesIdle
NextStore ==
  \/ PackCamera
  \/ RebuildCamera
  \/ ApplyTransformToCameras
SpecStore == InitStore /\ [][NextStore]_vars

\* The initialization of CSM cameras by init_cams and by init_cams_csm.
InitCsmInit == IdxIdle /\ CamIdle /\ LsIdle /\ EvIdle /\ RigIdle /\ IntrIdle /\ GcpIdle /\ PosIdle /\ StoreIdle /\ CsmInitInit /\ ViewIdle /\ UniverseIdle /\ CenterIdle /\ RollYawIdle /\ GcpDistsIdle /\ MatchesIdle
NextCsmInit ==
  \/ InitCamsPrepare
  \/ InitCamsTransform
  \/ InitCamsCsmPrepare
  \/ InitCamsCsmTransform
  \/ InitCamsReturn
SpecCsmInit == InitCsmInit /\ [][NextCsmInit]_vars

\* The triangulation view prerasterized and rasterized by concurrent tiles.
InitView == IdxIdle /\ CamIdle /\ LsIdle /\ EvIdle /\ RigIdle /\ IntrIdle /\ GcpIdle /\ PosIdle /\ StoreIdle /\ CsmInitIdle /\ ViewInit /\ UniverseIdle /\ CenterIdle /\ RollYawIdle /\ GcpDistsIdle /\ MatchesIdle
NextView ==
  \/ \E tl \in Tiles : PreRasterPlain(tl)
  \/ \E tl \in Tiles : CopyTransforms(tl)
  \/ \E tl \in Tiles : PrimeLeft(tl)
  \/ \E tl \in Tiles : PrimeRight(tl)
  \/ \E tl \in Tiles : ReturnView(tl)
  \/ \E tl \in Tiles : Rasterize(tl)
SpecView == InitView /\ [][NextView]_vars

\* The choice of the universe radius filter by stereo_triangulation.
InitUniverse == IdxIdle /\ CamIdle /\ LsIdle /\ EvIdle /\ RigIdle /\ IntrIdle /\ GcpIdle /\ PosIdle /\ StoreIdle /\ CsmInitIdle /\ ViewIdle /\ UniverseInit /\ CenterIdle /\ RollYawIdle /\ GcpDistsIdle /\ MatchesIdle
NextUniverse ==
  \/ SetUniverseRadius
  \/ GenerateCloud
SpecUniverse == InitUniverse /\ [][NextUniverse]_vars

\* The search of the center of the point cloud, tile by tile.
InitCenter == IdxIdle /\ CamIdle /\ LsIdle /\ EvIdle /\ RigIdle /\ IntrIdle /\ GcpIdle /\ PosIdle /\ StoreIdle /\ CsmInitIdle /\ ViewIdle /\ UniverseIdle /\ CenterInit /\ RollYawIdle /\ GcpDistsIdle /\ MatchesIdle
NextCenter ==
  \/ SkipInner
  \/ SkipOutOfBounds
  \/ VisitTile
  \/ ReturnCenter
SpecCenter == InitCenter /\ [][NextCenter]_vars

\* The roll/yaw regularizer evaluated on the angles of a decomposition.
InitRollYaw == IdxIdle /\ CamIdle /\ LsIdle /\ EvIdle /\ RigIdle /\ IntrIdle /\ GcpIdle /\ PosIdle /\ StoreIdle /\ CsmInitIdle /\ ViewIdle /\ UniverseIdle /\ CenterIdle /\ RollYawInit /\ GcpDistsIdle /\ MatchesIdle
NextRollYaw ==
  \/ weightedRollYawError
SpecRollYaw == InitRollYaw /\ [][NextRollYaw]_vars

\* check_gcp_dists on a small control network.
InitGcpDists == IdxIdle /\ CamIdle /\ LsIdle /\ EvIdle /\ RigIdle /\ IntrIdle /\ GcpIdle /\ PosIdle /\ StoreIdle /\ CsmInitIdle /\ ViewIdle /\ UniverseIdle /\ CenterIdle /\ RollYawIdle /\ GcpDistsInit /\ MatchesIdle
NextGcpDists ==
  \/ CountPoint
  \/ CountsDone
  \/ MeanPoint
  \/ CompareMeans
SpecGcpDists == InitGcpDists /\ [][NextGcpDists]_vars

\* compute_matches_from_disp in both modes on a small disparity.
InitMatches == IdxIdle /\ CamIdle /\ LsIdle /\ EvIdle /\ RigIdle /\ IntrIdle /\ GcpIdle /\ PosIdle /\ StoreIdle /\ CsmInitIdle /\ ViewIdle /\ UniverseIdle /\ CenterIdle /\ RollYawIdle /\ GcpDistsIdle /\ MatchesInit
NextMatches ==
  \/ PlainBin
  \/ LeftBin
  \/ LeftDone
  \/ RightPixel
  \/ WriteMatches
SpecMatches == InitMatches /\ [][NextMatches]_vars

---------------------------------------------------------------------------
(* Claims *)

\* The quotient a/b (b > 0) rounded toward minus infinity and toward zero,
\* stated through the defining inequalities.
IsFloorOf(q, a, b) == q * b <= a /\ a < (q + 1) * b
IsTruncOf(q, a, b) == IF a >= 0 THEN q * b <= a /\ a < (q + 1) * b
                                ELSE (q - 1) * b < a /\ a <= q * b

\* C1 (as stated): after calcIndexBounds, begIndex = max(0, floor((t_min -
\* t0)/dt) - 3) and endIndex = min(N, floor((t_max - t0)/dt) + 5), also when
\* (t - t0)/dt is negative and not an integer.
C1_FloorBounds ==
  idxPc \in {"returned", "thrown"} =>
    \E qmin, qmax \in -(2 * MaxTime + MaxT0 + 2)..(2 * MaxTime + MaxT0 + 2) :
      /\ IsFloorOf(qmin, Min(time1, time2) - t0, dt)
      /\ IsFloorOf(qmax, Max(time1, time2) - t0, dt)
      /\ begIndex = Max(0, qmin - 3)
      /\ endIndex = Min(numVals, qmax + 5)

\* C1 (amended): after calcIndexBounds, begIndex = max(0, trunc((t_min -
\* t0)/dt) - 3) and endIndex = min(N, trunc((t_max - t0)/dt) + 5), where trunc
\* rounds toward zero (the floor only when the quotient is non-negative or an
\* integer).
C1_TruncBounds ==
  idxPc \in {"returned", "thrown"} =>
    \E qmin, qmax \in -(2 * MaxTime + MaxT0 + 2)..(2 * MaxTime + MaxT0 + 2) :
      /\ IsTruncOf(qmin, Min(time1, time2) - t0, dt)
      /\ IsTruncOf(qmax, Max(time1, time2) - t0, dt)
      /\ begIndex = Max(0, qmin - 3)
      /\ endIndex = Min(numVals, qmax + 5)

\* C1 witness: calcIndexBounds returned for a window whose later time lies
\* before the sample origin at a non-integer quotient.
C1_Witness ==
  /\ idxPc = "returned"
  /\ Max(time1, time2) < t0
  /\ (t0 - Max(time1, time2)) % dt # 0
  /\ endIndex < numVals

\* The residual of the block at line time tm on the camera as loaded.
LsResidualAsLoaded(tm) ==
  LsPixelReprojErr(
    lsParameterBlocks(initialQuaternions, initialPositions, tri_point,
                      begQuatIndex, endQuatIndex, begPosIndex, endPosIndex),
    initialQuaternions, initialPositions,
    begQuatIndex, endQuatIndex, begPosIndex, endPosIndex,
    m_weight, tm, m_t0Quat, m_dtQuat, m_t0Ephem, m_dtEphem)

\* C2: whatever values the quaternion samples outside [begQuat, endQuat) and
\* the position samples outside [begPos, endPos) have taken, the residual of
\* the block, for a point projecting to a line time within the time window
\* the block was built for, is the residual on the unmodified camera: the
\* samples interpolation reads lie in the windows.
C2_ResidualLocal ==
  lsPc = "evaluated" =>
    /\ lsResiduals = LsResidualAsLoaded(lineTime)
    /\ lagrangeInterpReads(lineTime, m_t0Quat, m_dtQuat, numQuat)
          \subseteq begQuatIndex..(endQuatIndex - 1)
    /\ lagrangeInterpReads(lineTime, m_t0Ephem, m_dtEphem, numPos)
          \subseteq begPosIndex..(endPosIndex - 1)

\* C2 witness: the block was evaluated after a quaternion sample and a
\* position sample outside its windows were modified.
C2_Witness ==
  /\ lsPc = "evaluated"
  /\ \E q \in DOMAIN m_quaternions :
       (q < begQuatIndex \/ q >= endQuatIndex) /\ m_quaternions[q] # initialQuaternions[q]
  /\ \E p \in DOMAIN m_positions :
       (p < begPosIndex \/ p >= endPosIndex) /\ m_positions[p] # initialPositions[p]

\* C3 (as stated): whatever exception is raised while copying the camera,
\* setting its samples or projecting, no evaluation lets it leave operator(),
\* and the call returns with both residuals at the saturating value.
C3_AllExceptionsCaught ==
  \A p \in DOMAIN evPc :
    /\ evPc[p] # "propagated"
    /\ evPc[p] = "caught" =>
         evResiduals[p] = <<g_big_pixel_value, g_big_pixel_value>>

\* C4 (as stated): when an evaluation fails, each residual component is 1000
\* times the weight of the observation.
C4_SaturationTimesWeight ==
  \A p \in DOMAIN evPc :
    evPc[p] = "caught" => evResiduals[p] = <<1000 * m_weight, 1000 * m_weight>>

\* C4 (amended): when an evaluation fails and returns, each residual
\* component is 1000, whatever the weight of the observation.
C4_SaturationUnweighted ==
  \A p \in DOMAIN evPc :
    evPc[p] = "caught" => evResiduals[p] = <<1000, 1000>>

\* C4 witness: a failed evaluation of each kind of cost function returned,
\* for an observation of weight other than 1.
C4_Witness ==
  /\ m_weight # 1
  /\ \E p, q \in DOMAIN evPc :
       /\ evPc[p] = "caught" /\ evFun[p].kind = "rig"
       /\ evPc[q] = "caught" /\ evFun[q].kind \in {"ls", "frame"}

\* What the evaluation of thread p returns when it runs alone on the camera
\* models and nothing throws.
soloResiduals(p) ==
  LET f == evFun[p] IN
  IF f.kind = "ls"
  THEN LsPixelReprojErr(evParameters[p], m_quaternions, m_positions,
                        f.begQuat, f.endQuat, f.begPos, f.endPos, m_weight,
                        f.time, m_t0Quat, m_dtQuat, m_t0Ephem, m_dtEphem)
  ELSE IF f.kind = "frame"
  THEN FramePixelReprojErr(evParameters[p], m_frame_params, m_weight)
  ELSE RigLsFramePixelReprojErr(evParameters[p], m_quaternions, m_positions,
                                m_frame_params, f, m_weight)

\* C5: no step of an evaluation writes to the camera models the cost
\* functions were created with or to the parameter blocks passed in, and
\* under every interleaving each evaluation that returns its residuals
\* returns those it returns when run alone.
C5_Reentrant ==
  /\ [][ /\ m_quaternions' = m_quaternions
         /\ m_positions' = m_positions
         /\ m_frame_params' = m_frame_params
         /\ \A p \in DOMAIN evPc :
              evPc[p] # "idle" => evParameters'[p] = evParameters[p] ]_vars
  /\ [](\A p \in DOMAIN evPc :
          evPc[p] = "returned" => evResiduals[p] = soloResiduals(p))

\* C5 witness: two evaluations of different cost functions returned, each
\* having worked on a local copy that differs from the shared camera, while
\* the shared camera is as loaded.
C5_Witness ==
  /\ m_quaternions = initialQuaternions
  /\ \E p, q \in DOMAIN evPc :
       /\ p # q
       /\ evPc[p] = "returned" /\ evPc[q] = "returned"
       /\ evFun[p].kind = "ls" /\ evFun[q].kind = "rig"
       /\ evFun[p].begQuat # evFun[q].begQuat
       /\ evCam[p].quats # m_quaternions
       /\ evCam[q].poss # m_positions


\* A reference sensor is the first sensor of a rig.
isReference(rs, cam_name) ==
  \E rig_it \in DOMAIN rs.cam_set :
    rs.cam_set[rig_it] # <<>> /\ rs.cam_set[rig_it][1] = cam_name

\* The load invariant of a rig set: distinct sensor names, as many transforms,
\* offsets and camera records as sensors, offset 0 for every reference
\* sensor and, with rig transforms expected, the identity for its transform.
loadInvariantHolds(rs, expect_transforms) ==
  /\ \A i, j \in DOMAIN rs.cam_names : rs.cam_names[i] = rs.cam_names[j] => i = j
  /\ Len(rs.ref_to_cam_trans) = Len(rs.cam_names)
  /\ Len(rs.depth_to_image) = Len(rs.cam_names)
  /\ Len(rs.ref_to_cam_timestamp_offsets) = Len(rs.cam_names)
  /\ Len(rs.cam_params) = Len(rs.cam_names)
  /\ \A i \in DOMAIN rs.cam_names :
       isReference(rs, rs.cam_names[i]) =>
         /\ rs.ref_to_cam_timestamp_offsets[i] = 0
         /\ expect_transforms => rs.ref_to_cam_trans[i] = "identity"

\* C6: whenever readRigConfig returns normally, the rig set it loaded
\* satisfies the load invariant (distinct names, matching sizes, offset 0 and,
\* when rig transforms are expected, identity transform for every reference
\* sensor).
C6_LoadInvariant ==
  rigPc = "returned" => loadInvariantHolds(R, have_rig_transforms)

\* C7: readRigConfig never treats a line with an unexpected key as the end
\* of the file: when it returns normally, the line it stopped at is the end
\* of the file (or holds nothing but white space).
C7_WrongKeyFails ==
  rigPc = "returned" => f_line \in {EndOfFile, BlankLine}

\* The words of the float string as the user wrote them.
writtenOptions ==
  split_str_with_space(replace_separators_with_space(to_lower(intrinsics_to_float_str)))

\* Option j of the list is one of the keys and belongs to sensor index i:
\* the last index written before it is i.
listedFor(options, i, keys) ==
  \E j \in DOMAIN options :
    /\ options[j] \in keys
    /\ \E k \in 1..(j - 1) :
         /\ is_str_non_neg_integer(options[k])
         /\ atoi(options[k]) = i
         /\ \A m \in (k + 1)..(j - 1) : ~is_str_non_neg_integer(options[m])

\* C8: a fine-grained string accepted under per-sensor sharing with n sensors
\* gives three vectors of length n where, for each sensor index i, the center
\* flag is set iff optical_center or all is listed for i, the focus flag iff
\* focal_length or all is, the distortion flag iff other_intrinsics,
\* distortion or all is; "1:focal_length,optical_center 2:all 3:none" with
\* 3 sensors gives center TTF, focus TTF, distortion FTF.
C8_FineGrainedMasks ==
  (/\ intrPc = "returned"
   /\ solve_intrinsics
   /\ intrinsics_options.share_intrinsics_per_sensor
   /\ writtenOptions # <<>>
   /\ is_str_non_neg_integer(writtenOptions[1]))
  => LET o == intrinsics_options
         n == intrinsics_options.num_sensors
     IN /\ Len(o.float_center) = n
        /\ Len(o.float_focus) = n
        /\ Len(o.float_distortion) = n
        /\ \A i \in 1..n :
             /\ o.float_center[i] =
                  listedFor(writtenOptions, i, {<<"optical_center">>, <<"all">>})
             /\ o.float_focus[i] =
                  listedFor(writtenOptions, i, {<<"focal_length">>, <<"all">>})
             /\ o.float_distortion[i] =
                  listedFor(writtenOptions, i,
                            {<<"other_intrinsics">>, <<"distortion">>, <<"all">>})
        /\ (intrinsics_to_float_str = fineExampleStr /\ n = 3) =>
             /\ o.float_center = <<TRUE, TRUE, FALSE>>
             /\ o.float_focus = <<TRUE, TRUE, FALSE>>
             /\ o.float_distortion = <<FALSE, TRUE, FALSE>>

C8_Witness ==
  /\ intrPc = "returned"
  /\ intrinsics_to_float_str = fineExampleStr
  /\ intrinsics_options.num_sensors = 3
  /\ intrinsics_options.float_center = <<TRUE, TRUE, FALSE>>
  /\ intrinsics_options.float_focus = <<TRUE, TRUE, FALSE>>
  /\ intrinsics_options.float_distortion = <<FALSE, TRUE, FALSE>>

\* One of the keys is written somewhere in the list.
written(options, keys) == \E j \in DOMAIN options : options[j] \in keys

\* A coarse-grained string was accepted for n >= 1 sensors.
coarseAccepted ==
  /\ intrPc = "returned"
  /\ solve_intrinsics
  /\ intrinsics_options.num_sensors >= 1
  /\ ~(writtenOptions # <<>> /\ is_str_non_neg_integer(writtenOptions[1]))

\* Every vector has n entries, all equal to the given values.
allSensorsFloat(center, focus, distortion_) ==
  LET o == intrinsics_options
      n == intrinsics_options.num_sensors
  IN /\ Len(o.float_center) = n
     /\ Len(o.float_focus) = n
     /\ Len(o.float_distortion) = n
     /\ \A i \in 1..n : /\ o.float_center[i] = center
                        /\ o.float_focus[i] = focus
                        /\ o.float_distortion[i] = distortion_

\* The flags the keywords written in the string call for.
flagsAsWritten ==
  allSensorsFloat(written(writtenOptions, {<<"optical_center">>, <<"all">>}),
                  written(writtenOptions, {<<"focal_length">>, <<"all">>}),
                  written(writtenOptions,
                          {<<"other_intrinsics">>, <<"distortion">>, <<"all">>}))

\* C9 as stated: for every coarse-grained string, the empty one included,
\* each flag is true for all n sensors exactly when its keyword (or all) is
\* written in the string.
C9_CoarseFlagsAnyString == coarseAccepted => flagsAsWritten

\* C9: for a coarse-grained string that is not empty and n >= 1 sensors, each
\* of the three vectors has n equal entries, true exactly when the keyword
\* (or all) is written in the string; the empty string floats all three
\* intrinsics of every sensor; "focal_length" with 4 sensors gives focus true
\* and center and distortion false for all four.
C9_CoarseFlags ==
  coarseAccepted =>
    /\ intrinsics_to_float_str # <<>> => flagsAsWritten
    /\ intrinsics_to_float_str = <<>> => allSensorsFloat(TRUE, TRUE, TRUE)
    /\ (intrinsics_to_float_str = coarseExampleStr
        /\ intrinsics_options.num_sensors = 4) =>
         /\ intrinsics_options.float_focus = <<TRUE, TRUE, TRUE, TRUE>>
         /\ intrinsics_options.float_center = <<FALSE, FALSE, FALSE, FALSE>>
         /\ intrinsics_options.float_distortion = <<FALSE, FALSE, FALSE, FALSE>>

C9_Witness ==
  /\ intrPc = "returned"
  /\ intrinsics_to_float_str = coarseExampleStr
  /\ intrinsics_options.num_sensors = 4
  /\ intrinsics_options.float_focus = <<TRUE, TRUE, TRUE, TRUE>>
  /\ intrinsics_options.float_center = <<FALSE, FALSE, FALSE, FALSE>>

\* A sensor index is written twice, or an index outside 1..n is written.
indexRepeated(options) ==
  \E j, k \in DOMAIN options :
    /\ j < k
    /\ is_str_non_neg_integer(options[j])
    /\ is_str_non_neg_integer(options[k])
    /\ atoi(options[j]) = atoi(options[k])

indexOutOfRange(options, n) ==
  \E j \in DOMAIN options :
    is_str_non_neg_integer(options[j]) /\ atoi(options[j]) \notin 1..n

\* C10: a fine-grained string (one that starts with a sensor index) is
\* rejected when an index is written twice, when an index is outside 1..n,
\* and whenever intrinsics are not shared per sensor, wherever the index is.
C10_BadIndexRejected ==
  (/\ intrPc \in {"returned", "thrown"}
   /\ writtenOptions # <<>>
   /\ is_str_non_neg_integer(writtenOptions[1])
   /\ \/ indexRepeated(writtenOptions)
      \/ indexOutOfRange(writtenOptions, intrinsics_options.num_sensors)
      \/ ~intrinsics_options.share_intrinsics_per_sensor)
  => intrPc = "thrown"

C10_Witness ==
  /\ intrPc = "thrown"
  /\ solve_intrinsics
  /\ intrinsics_options.share_intrinsics_per_sensor
  /\ intrinsics_options.num_sensors = 2
  /\ writtenOptions = << <<"2">>, <<"all">>, <<"2">> >>

\* C11: when load_intrinsics_options rejects its input, the caller's
\* intrinsics options (the three float vectors and the three shared flags)
\* hold exactly the values they had before the call.
C11_NoPartialWork ==
  [][intrPc' = "thrown" => intrinsics_options' = intrinsics_options]_vars

\* The ground control points counted as valid.
validGcps ==
  {i \in 0..(Len(cnet) - 1) :
     /\ cnet[i + 1].type = "GroundControlPoint"
     /\ cnet[i + 1].position # "zero"
     /\ cnet[i + 1].tri_position # "zero"
     /\ (cnet[i + 1].err > 0 \/ camera_models = 1)}

\* C12: the ground control points stored for the similarity solve are
\* exactly the ones counted as valid: every column written has an index below
\* the counted number and holds a valid GCP, and at the solve the number of
\* columns filled equals the counted number.
C12_UsedAreCounted ==
  /\ \A c \in points_in : c[1] < num_good_gcp /\ c[2] \in validGcps
  /\ gcpPc = "solved" =>
       index = num_good_gcp /\ {c[2] : c \in points_in} = validGcps

\* The number of candidate positions that are not the sentinel.
numKnown == Cardinality({i \in DOMAIN estimated_camera_gcc : estimated_camera_gcc[i] # 0})

\* C13: with N cameras and N candidates of which at least 3 are known, the
\* call returns with one solved similarity applied to each of the N cameras
\* and to every point that is not a ground control point, the ground control
\* points being left as they were; with fewer than 3 known candidates, or a
\* list of another length, it throws and no camera and no point has changed.
C13_SimilarityApplied ==
  /\ (posPc \in {"returned", "thrown"})
       => (posPc = "returned" <=>
             (Len(estimated_camera_gcc) = image_files /\ numKnown >= 3))
  /\ posPc = "returned" =>
       /\ \A i \in 1..image_files :
            pinhole_models[i] = [by |-> rigid_transform, of |-> <<"cam", i>>]
       /\ \A j \in DOMAIN world_points :
            world_points[j].position =
              IF world_points[j].type = "GroundControlPoint"
              THEN [by |-> NoTransform, of |-> <<"pt", j>>]
              ELSE [by |-> rigid_transform, of |-> <<"pt", j>>]
  /\ posPc \in {"start", "thrown"} =>
       /\ \A i \in 1..image_files :
            pinhole_models[i] = [by |-> NoTransform, of |-> <<"cam", i>>]
       /\ \A j \in DOMAIN world_points :
            world_points[j].position = [by |-> NoTransform, of |-> <<"pt", j>>]

C13_Witness ==
  /\ posPc = "returned"
  /\ image_files = 4
  /\ numKnown = 3
  /\ \E j, k \in DOMAIN world_points :
       /\ world_points[j].type = "GroundControlPoint"
       /\ world_points[k].type = "TiePoint"
       /\ world_points[k].position = [by |-> rigid_transform, of |-> <<"pt", k>>]

\* C14: packing camera i writes its position and pose and the value 1 into
\* the two center multipliers, the focus multiplier and each distortion
\* multiplier of record i and changes no other record; the camera rebuilt from
\* the store right afterwards has the same position and pose, optical center,
\* focal length and distortion parameters as the camera that was packed.
C14_PackRoundTrip ==
  /\ [](storePc.op = "packed" =>
          LET rec == param_storage[storePc.camera_index]
          IN /\ rec.pos_pose = cam_ptrs[storePc.camera_index].pos_pose
             /\ rec.center = <<1, 1>>
             /\ rec.focus = 1
             /\ \A j \in DOMAIN rec.distortion : rec.distortion[j] = 1)
  /\ [][storePc'.op = "packed" =>
          \A i \in DOMAIN param_storage :
            i # storePc'.camera_index => param_storage'[i] = param_storage[i]]_vars
  /\ [](storePc.op = "rebuilt after pack" => out_cam = cam_ptrs[storePc.camera_index])

transformNowhere ==
  /\ \A c \in DOMAIN csm_camera_models : ~csm_camera_models[c].transform
  /\ \A c \in DOMAIN csm_param_storage : ~csm_param_storage[c].transform

\* The initial transform has reached every camera (its record in the store
\* for init_cams, the camera itself for init_cams_csm).
transformEverywhere ==
  IF init_path = "init_cams"
  THEN \A c \in DOMAIN csm_param_storage : csm_param_storage[c].transform
  ELSE \A c \in DOMAIN csm_camera_models : csm_camera_models[c].transform

viewTransform(k) == transform_objs[m_transforms[k]]

\* The disparity maps with the map c masked everywhere.
maskedAt(c) ==
  [e \in DOMAIN m_disparity_maps |->
     IF e = c THEN [px \in DOMAIN m_disparity_maps[e] |->
                      [m_disparity_maps[e][px] EXCEPT !.valid = FALSE]]
     ELSE m_disparity_maps[e]]

\* C17: at every pixel of a view of n-1 disparity maps and n transforms the
\* stereo model receives n pixels: the first is the reverse of (i,j) through
\* transform 0, the one of image k+1 is the NaN pixel when disparity k is
\* masked and else the reverse of (i,j) + disparity k through transform k+1;
\* the result is xyz followed by the error vector; masking one map leaves
\* the pixels of the other images as they are.
C17_PixelVector ==
  \A tl \in DOMAIN tilePc :
    (tilePc[tl] = "done" /\ Len(m_transforms) = Len(m_disparity_maps) + 1) =>
      LET pix == tilePixel(tl)
          n == Len(m_transforms)
          txs == [k \in 1..n |-> viewTransform(k)]
      IN /\ Len(pixVec[tl]) = n
         /\ pixVec[tl][1] = reverse(viewTransform(1), pix)
         /\ \A k \in 1..(n - 1) :
              LET disp == m_disparity_maps[k][pix.x]
              IN pixVec[tl][k + 1] =
                   IF disp.valid
                   THEN reverse(viewTransform(k + 1),
                                [nan |-> FALSE, x |-> pix.x + disp.dx, y |-> pix.y + disp.dy])
                   ELSE NaNPixel
         /\ Len(viewResult[tl]) = 6
         /\ SubSeq(viewResult[tl], 1, 3) = stereo_model(pixVec[tl]).xyz
         /\ SubSeq(viewResult[tl], 4, 6) = stereo_model(pixVec[tl]).errorVec
         /\ \A c \in 1..(n - 1) : \A e \in 1..n :
              e # c + 1 => dewarp(maskedAt(c), txs, pix)[e] = pixVec[tl][e]

C17_Witness ==
  /\ Len(m_disparity_maps) = 2
  /\ Len(m_transforms) = 3
  /\ m_is_map_projected
  /\ tilePc[2] = "done"
  /\ pixVec[2][2] = NaNPixel
  /\ pixVec[2][3] # NaNPixel

\* C19: with a map projected session reverse_bbox is called only on the
\* copies a tile made for itself, on the copy of transform 0 and of every
\* transform p+1; the transforms of the view are never modified; the view
\* returned for the tile holds the primed copies; no transform object is
\* written by more than one tile, whatever the interleaving.
C19_PerTileCopies ==
  /\ \A k \in DOMAIN m_transforms : viewTransform(k).cache = NoCache
  /\ \A w \in cache_writes : w[1].owner = w[2]
  /\ \A w1 \in cache_writes : \A w2 \in cache_writes : w1[1] = w2[1] => w1[2] = w2[2]
  /\ \A tl \in DOMAIN tilePc :
       (m_is_map_projected /\ tilePc[tl] \in {"raster", "done"}) =>
         /\ tileView[tl].transforms = transforms_copy[tl]
         /\ \A k \in DOMAIN transforms_copy[tl] :
              /\ <<transforms_copy[tl][k], tl>> \in cache_writes
              /\ transform_objs[transforms_copy[tl][k]].cache # NoCache
              /\ transform_objs[transforms_copy[tl][k]].shift = viewTransform(k).shift

C19_Witness ==
  /\ m_is_map_projected
  /\ Len(m_disparity_maps) = 2
  /\ tilePc[1] = "raster"
  /\ tilePc[2] = "loop"
  /\ tileP[2] = 1

\* C18: with the universe center "camera" and rpc cameras the triangulation
\* ends with an error and makes no point cloud; it never goes on with the
\* radius filter disabled.
C18_RpcCameraCenterRefused ==
  (universe_center = "camera" /\ session_name = "rpc") =>
    uniPc = "start"

\* All the tiles of the grid have been gone through.
ringsDone == ring_r > lastRing

\* The number of accumulated points whose coordinate i is at most / at least v.
atMost(i, v) == numPoints(SelectSeq(points, LAMBDA run : run.xyz[i] <= v))
atLeast(i, v) == numPoints(SelectSeq(points, LAMBDA run : run.xyz[i] >= v))

\* m is a median of the coordinate i of the accumulated points.
isMedian(i, m) ==
  /\ \E k \in DOMAIN points : points[k].n > 0 /\ points[k].xyz[i] = m
  /\ 2 * atMost(i, m) >= numPoints(points)
  /\ 2 * atLeast(i, m) >= numPoints(points)

returnsMedian ==
  centerPc = "returned" =>
    IF numPoints(points) = 0 THEN cloud_center.median = <<0, 0, 0>>
    ELSE \A i \in 1..3 : isMedian(i, cloud_center.median[i])

\* C20, as stated: after any tile, if at least 100 valid points have been
\* accumulated the search ends and the median of the points so far is
\* returned, without visiting further tiles.
C20_StopsAt100 ==
  /\ (centerPc \in {"loop", "exhausted"} /\ visited # <<>> /\ ~ringsDone) =>
       numPoints(points) < enoughPoints
  /\ returnsMedian

\* C20, amended: the search ends after a tile as soon as more than 100
\* valid points have been accumulated (exactly 100 are not enough); the
\* median of the points so far is returned and no further tile is visited.
C20_StopsAbove100 ==
  /\ (centerPc \in {"loop", "exhausted"}) => numPoints(points) <= enoughPoints
  /\ (centerPc = "returned" /\ ~ringsDone) =>
       /\ numPoints(points) > enoughPoints
       /\ numPoints(SubSeq(points, 1, Len(points) - 1)) <= enoughPoints
       /\ visited[Len(visited)] = <<ring_x, ring_y>>
  /\ Len(points) = Len(visited)
  /\ returnsMedian

C20_Witness ==
  /\ centerPc = "returned"
  /\ ~ringsDone
  /\ Len(visited) = 2
  /\ points[1].n = enoughPoints
  /\ numPoints(points) = enoughPoints + 1

\* The center is exactly the point xyz: every coordinate is the median of
\* that coordinate and nothing was added to it.
coincides(center, xyz) ==
  \A i \in 1..3 : center.median[i] = xyz[i] /\ center.nudge[i] = 0

\* C21: for a non-empty list of points, whatever rand() returns, the center
\* returned by find_approx_points_median is not a point of the list; for an
\* empty list it is the zero vector.
C21_CenterOffEveryPoint ==
  centerPc = "returned" =>
    IF numPoints(points) = 0
    THEN coincides(cloud_center, <<0, 0, 0>>)
    ELSE \A k \in DOMAIN points : points[k].n > 0 => ~coincides(cloud_center, points[k].xyz)

gridTiles == (0..(numx - 1)) \X (0..(numy - 1))

Abs(a) == IF a >= 0 THEN a ELSE -a

\* The ring of a tile: its distance from the central tile.
ringOf(tile) == Max(Abs(tile[1] - numx \div 2), Abs(tile[2] - numy \div 2))

\* The loops ran to their end: the stopping count was never reached.
searchedAll == centerPc = "exhausted" \/ (centerPc = "returned" /\ ringsDone)

everyTileOnce ==
  searchedAll =>
    /\ Len(visited) = numx * numy
    /\ {visited[k] : k \in DOMAIN visited} = gridTiles

ringsInOrder ==
  \A k \in 1..(Len(visited) - 1) : ringOf(visited[k]) <= ringOf(visited[k + 1])

visitedBox(k) == tileBox(visited[k][1], visited[k][2])

\* Every box that is not empty starts at a multiple of the tile size.
boxesAligned ==
  \A k \in DOMAIN visited :
    boxArea(visitedBox(k)) > 0 =>
      /\ visitedBox(k).minx % tile_size[1] = 0
      /\ visitedBox(k).miny % tile_size[2] = 0

\* Every box that is not empty lies in the cell of its tile, in the cloud
\* and in the crop window, and starts at a multiple of the tile size when
\* the crop window is the whole cloud.
boxesInCells ==
  \A k \in DOMAIN visited :
    LET box == visitedBox(k)
        win == cropBox(cloudBox, trans_crop_win)
    IN boxArea(box) > 0 =>
         /\ visited[k][1] * tile_size[1] <= box.minx
         /\ box.minx + box.width <= (visited[k][1] + 1) * tile_size[1]
         /\ visited[k][2] * tile_size[2] <= box.miny
         /\ box.miny + box.height <= (visited[k][2] + 1) * tile_size[2]
         /\ win.minx <= box.minx /\ box.minx + box.width <= win.minx + win.width
         /\ win.miny <= box.miny /\ box.miny + box.height <= win.miny + win.height
         /\ trans_crop_win = cloudBox =>
              box.minx % tile_size[1] = 0 /\ box.miny % tile_size[2] = 0

RECURSIVE areaOfBoxes(_)
areaOfBoxes(k) == IF k = 0 THEN 0 ELSE boxArea(visitedBox(k)) + areaOfBoxes(k - 1)

\* The boxes cover the part of the cloud inside the crop window.
boxesCover ==
  searchedAll => areaOfBoxes(Len(visited)) = boxArea(cropBox(cloudBox, trans_crop_win))

RECURSIVE iterationsBefore(_)
iterationsBefore(r) ==
  IF r = 0 THEN 0 ELSE (2 * r - 1) * (2 * r - 1) + iterationsBefore(r - 1)

\* The steps the search has still to take: the iterations of the loops that
\* are left, and the return.
stepsLeft ==
  IF centerPc = "loop"
  THEN 1 + iterationsBefore(lastRing + 1)
         - (iterationsBefore(ring_r)
            + (ring_x - (numx \div 2 - ring_r)) * (2 * ring_r + 1)
            + (ring_y - (numy \div 2 - ring_r)))
  ELSE IF centerPc = "exhausted" THEN 1 ELSE 0

\* The search ends: steps are left exactly until the return, and every step
\* takes the search nearer to it.
searchGoesOn == (centerPc \in {"loop", "exhausted"}) <=> (stepsLeft > 0)

\* C30, as stated: when the stopping count is never reached the ring search
\* ends after visiting every tile of the grid exactly once, by non-decreasing
\* ring, every box aligned to a multiple of the tile size, and returns the
\* median of the points found.
C30_RingSearch ==
  /\ [](everyTileOnce /\ ringsInOrder /\ boxesAligned /\ (searchedAll => returnsMedian))
  /\ []searchGoesOn
  /\ [][stepsLeft' < stepsLeft]_vars

\* C30, amended: the tiles are aligned to multiples of the tile size, and the
\* box triangulated for a tile is the part of the tile inside the cloud and
\* inside trans_crop_win (so it starts at a multiple of the tile size only
\* when the crop window does not cut the tile); the rest as stated.
C30_RingSearchCropped ==
  /\ [](everyTileOnce /\ ringsInOrder /\ boxesInCells /\ boxesCover
        /\ (searchedAll => returnsMedian))
  /\ [](searchGoesOn /\ stepsLeft >= 0)
  /\ [][stepsLeft' < stepsLeft]_vars

C30_Witness ==
  /\ centerPc = "returned"
  /\ ringsDone
  /\ numx = 4
  /\ numy = 5
  /\ trans_crop_win # cloudBox
  /\ numPoints(points) > 0

\* The sample indices of the earlier and of the later end of the window.
firstSample == Min(sampleIndex(time1, t0, dt), sampleIndex(time2, t0, dt))
lastSample == Max(sampleIndex(time1, t0, dt), sampleIndex(time2, t0, dt))

\* The window of samples lies before the first sample, or after the last
\* one, or there are no samples.
windowOffSamples ==
  \/ lastSample + numInterpSamples \div 2 + 1 <= 0
  \/ firstSample - numInterpSamples \div 2 + 1 >= numVals
  \/ numVals = 0

\* C27: when calcIndexBounds returns, 0 <= begIndex < endIndex <= numVals;
\* it throws the book-keeping error exactly when the clamped indices have
\* begIndex >= endIndex (window before the first sample, after the last one,
\* or numVals = 0). So the blocks begIndex..endIndex-1 a residual block is
\* made of are at least one and are indices of samples.
C27_WindowInBounds ==
  /\ idxPc = "returned" =>
       /\ 0 <= begIndex /\ begIndex < endIndex /\ endIndex <= numVals
       /\ begIndex..(endIndex - 1) # {}
       /\ begIndex..(endIndex - 1) \subseteq 0..(numVals - 1)
       /\ ~windowOffSamples
  /\ idxPc = "thrown" => (windowOffSamples /\ begIndex >= endIndex)

C27_Witness ==
  /\ idxPc = "thrown"
  /\ numVals > 0
  /\ firstSample - numInterpSamples \div 2 + 1 >= numVals

\* The block k is registered with the size and for the address given.
registeredAs(k, size, array, sample, onRig) ==
  LET sizes == costFunctionBlocks(begQuatIndex, endQuatIndex, begPosIndex, endPosIndex, onRig)
      addrs == residualBlockVars(begQuatIndex, endQuatIndex, begPosIndex, endPosIndex, onRig)
  IN /\ k \in DOMAIN sizes
     /\ k \in DOMAIN addrs
     /\ sizes[k] = size
     /\ addrs[k] = [array |-> array, sample |-> sample]

\* C28: for every pair of windows the blocks registered with the solver and
\* the blocks the cost function reads agree in number, order and size:
\* quaternion qi is block qi - begQuat (size 4), position pi is block
\* (endQuat - begQuat) + (pi - begPos) (size 3), the point is the block after
\* them (size 3) and, on a rig, the transform is the next one (size 12); no
\* read is outside the list and each address is the one of the same sample.
C28_BlocksAgree ==
  lsPc \in {"added", "evaluated"} =>
    \A onRig \in BOOLEAN :
      LET nq == endQuatIndex - begQuatIndex
          np == endPosIndex - begPosIndex
      IN /\ DOMAIN costFunctionBlocks(begQuatIndex, endQuatIndex, begPosIndex,
                                      endPosIndex, onRig)
              = 0..(nq + np + IF onRig THEN 1 ELSE 0)
         /\ DOMAIN residualBlockVars(begQuatIndex, endQuatIndex, begPosIndex,
                                     endPosIndex, onRig)
              = 0..(nq + np + IF onRig THEN 1 ELSE 0)
         /\ \A qi \in begQuatIndex..(endQuatIndex - 1) :
              /\ readQuatBlock(qi, begQuatIndex) = qi - begQuatIndex
              /\ qi \in DOMAIN m_quaternions
              /\ registeredAs(readQuatBlock(qi, begQuatIndex), 4, "m_quaternions", qi, onRig)
         /\ \A pi \in begPosIndex..(endPosIndex - 1) :
              /\ readPosBlock(pi, begQuatIndex, endQuatIndex, begPosIndex)
                   = nq + (pi - begPosIndex)
              /\ pi \in DOMAIN m_positions
              /\ registeredAs(readPosBlock(pi, begQuatIndex, endQuatIndex, begPosIndex),
                              3, "m_positions", pi, onRig)
         /\ readPointBlock(begQuatIndex, endQuatIndex, begPosIndex, endPosIndex) = nq + np
         /\ registeredAs(nq + np, 3, "tri_point", 0, onRig)
         /\ onRig =>
              /\ readTransBlock(begQuatIndex, endQuatIndex, begPosIndex, endPosIndex)
                   = nq + np + 1
              /\ registeredAs(nq + np + 1, 12, "ref_to_curr_trans", 0, onRig)

C28_Witness ==
  /\ lsPc = "evaluated"
  /\ endQuatIndex - begQuatIndex >= 2
  /\ endPosIndex - begPosIndex >= 2
  /\ begPosIndex > 0
  /\ endQuatIndex - begQuatIndex # endPosIndex - begPosIndex

\* A sensor_name line was read and its sensor was stored, or the process went on.
sensorStored == rigPc = "sensor_name:" /\ rigPc' = "focal_length:"

\* The line read just before was the ref_sensor_name line of a new rig.
rigIntroduced == f_line.key = "ref_sensor_name:" /\ ~f_rewound

\* Every sensor is in exactly one rig, in the order of the names.
sensorsInOneRig(rs) ==
  /\ \A i \in DOMAIN rs.cam_names :
       Cardinality({<<rg, k>> \in (DOMAIN rs.cam_set) \X (1..Len(rs.cam_names)) :
                      k \in DOMAIN rs.cam_set[rg] /\ rs.cam_set[rg][k] = rs.cam_names[i]}) = 1

\* C29: a sensor is stored only once a rig has been introduced, the first
\* sensor of a rig is the one its ref_sensor_name line names, and every
\* sensor is in exactly one rig; a file that breaks this is rejected, not
\* loaded.
C29_RefSensorFirst ==
  [][sensorStored =>
       /\ Len(R.cam_set) > 0
       /\ rigIntroduced => f_line'.val = f_line.val
       /\ sensorsInOneRig(R')]_vars

\* The output for an angle that differs from the one given by 180 degrees.
sameBy180(angle, weight, output) ==
  \A k \in {-1, 1} : normalizeAngle(angle + 180 * k) * weight = output

\* The same, except at the odd multiples of 90 degrees, where the outputs
\* are opposite.
sameBy180OffHalf(angle, weight, output) ==
  \A k \in {-1, 1} :
    IF angle % 180 = 90
    THEN normalizeAngle(angle + 180 * k) * weight
           = (IF (angle >= 0) = (angle + 180 * k >= 0) THEN output ELSE -output)
    ELSE normalizeAngle(angle + 180 * k) * weight = output

inRange(output, weight) == -90 * weight <= output /\ output <= 90 * weight

modulo180(a, r) == r >= -90 /\ r <= 90 /\ (a - r) % 180 = 0

\* C25, as stated: in the mode of the initial camera the regularizer gives
\* (roll w_roll, yaw w_yaw), roll and yaw normalized modulo 180 degrees as in
\* the other mode; the first output is the roll times the roll weight in
\* both modes.
C25_SameInBothModes ==
  ryPc = "returned" =>
    \E r, y \in -90..90 :
      /\ modulo180(rollPitchYaw.roll, r)
      /\ modulo180(rollPitchYaw.yaw, y)
      /\ ryResiduals = <<r * m_rollWeight, y * m_yawWeight>>

\* C25, amended: the normalization and the weights are the same in both
\* modes, but in the mode of the initial camera the first output is the
\* pitch of the decomposition times the roll weight (roll and pitch are
\* swapped there); the second is the yaw times the yaw weight.
C25_PitchInInitialMode ==
  ryPc = "returned" =>
    \E r, y \in -90..90 :
      /\ modulo180(IF m_initial_camera_constraint THEN rollPitchYaw.pitch
                   ELSE rollPitchYaw.roll, r)
      /\ modulo180(rollPitchYaw.yaw, y)
      /\ ryResiduals = <<r * m_rollWeight, y * m_yawWeight>>

C25_Witness ==
  /\ ryPc = "returned"
  /\ m_initial_camera_constraint
  /\ rollPitchYaw = [roll |-> 91, pitch |-> 45, yaw |-> -91]
  /\ m_rollWeight = 2
  /\ m_yawWeight = 1
  /\ ryResiduals = <<90, 89>>

\* The eligible ground-control points, and the eligible other points that
\* triangulate.
eligibleGcp ==
  {i \in 1..Len(dist_cnet0) :
     ~skipped(dist_cnet0[i]) /\ dist_cnet0[i].type = "GroundControlPoint"}

eligibleIp ==
  {i \in 1..Len(dist_cnet0) :
     /\ ~skipped(dist_cnet0[i])
     /\ dist_cnet0[i].type # "GroundControlPoint"
     /\ ~failsToTriangulate(dist_cnet0[i])}

RECURSIVE sumOfPositions(_, _)
sumOfPositions(set, field) ==
  IF set = {} THEN 0
  ELSE LET i == CHOOSE j \in set : TRUE IN
       (IF field = "position" THEN dist_cnet0[i].position
        ELSE dist_cnet0[i].tri_position) + sumOfPositions(set \ {i}, field)

\* The distance of the two centroids exceeds 100 km:
\* |sum_ip / n_ip - sum_gcp / n_gcp| > 100000, without the divisions.
centroidsFar ==
  LET ng == Cardinality(eligibleGcp)
      ni == Cardinality(eligibleIp)
      d  == sumOfPositions(eligibleIp, "tri_position") * ng
              - sumOfPositions(eligibleGcp, "position") * ni
  IN  ng > 0 /\ ni > 0 /\ norm_2(d) > 100000 * ng * ni

\* C26, as stated: check_gcp_dists warns exactly when the centroid of the
\* eligible ground-control points is more than 100 km from the centroid of
\* the eligible points that triangulate, whatever the number of points of
\* each kind; it raises no error and leaves the control network alone.
C26_WarnsOnCentroids ==
  /\ dist_cnet = dist_cnet0
  /\ distPc = "returned" => (dist_warned <=> centroidsFar)

\* Every match of the plain mode comes from a pixel inside the disparity
\* whose disparity is valid.
fromValidPixels ==
  \A i \in 1..Len(left_ip) :
    LET pix == forward(match_trans, Pixel(left_ip[i].x, left_ip[i].y)) IN
      /\ insideDisp(pix.x, pix.y)
      /\ is_valid(dispAt(pix.x, pix.y))
      /\ \E bx, by \in 0..(MaxDispCols + MaxDispRows) :
           pix.x = plainPos(bx) /\ pix.y = plainPos(by)

\* C22, as stated: in the plain mode with K = max_num_matches >= 1 at most K
\* matches are emitted, whatever the size of the disparity, and every match
\* is a bin-center pixel inside the disparity with a valid disparity.
C22_AtMostK ==
  (~gen_triplets /\ matchPc \in {"plain", "written"}) =>
    /\ Len(left_ip) <= max_num_matches
    /\ Len(right_ip) = Len(left_ip)
    /\ fromValidPixels

noneTwice(ips) ==
  \A i, j \in 1..Len(ips) : i # j => ips[i] # ips[j]

\* C23, as stated: in the triplet mode no left interest point and no right
\* interest point occurs twice in the emitted list, for any disparity.
C23_NoDuplicates ==
  (gen_triplets /\ matchPc = "written") =>
    noneTwice(left_ip) /\ noneTwice(right_ip)

====
